---- MODULE Spec2Model ----
(***************************************************************************)
(* Level engine of the sound_meter module: the single-slot amplitude       *)
(* exchange between the audio thread and the refresh thread                *)
(* (Level::setInputLevel / Level::getInputLevel), the linear decay, the    *)
(* peak hold with its timed expiry, the clip latch, and the segments.      *)
(*                                                                         *)
(* Conventions of the model                                                *)
(*  - float values are exact rationals [n |-> numerator, d |-> denominator]*)
(*    in lowest terms (d > 0); float rounding is not modelled.             *)
(*  - an amplitude is an integer number of millionths of full scale        *)
(*    (1000000 is the gain 1.0, i.e. 0 dB).                                *)
(*  - juce::Time::getMillisecondCounter() is an unsigned counter of        *)
(*    milliseconds that wraps at CounterModulus; static_cast<int> of it is *)
(*    the two's complement reading of the same width.                      *)
(*  - a rectangle is [x, y, w, h] with rational y and h.                   *)
(***************************************************************************)
EXTENDS Integers, Sequences, FiniteSets, TLC

(***************************************************************************)
(* Constants of the program (namespace Constants).                         *)
(***************************************************************************)
kMaxLevel_db == 0

kMinLevel_db == -96

kMinDecay_ms == 100

kMaxDecay_ms == 4000

kDefaultDecay_ms == 1000

kPeakDefaultDecay_ms == 2000

kPeakHoldHeight == 2

kDefaultHeaderHeight == 25

\* juce::Decibels::gainToDecibels' default for "minus infinity".
defaultMinusInfinitydB == -100

(***************************************************************************)
(* Bounds of the model.                                                    *)
(***************************************************************************)
\* Modulus of the millisecond counter (2^32 in the program).
CounterModulus == 16384

\* Largest number of calls in one behaviour of Spec.
MaxCalls == 4

\* Largest number of calls in one behaviour of SpecDecay and of SpecPeak.
MaxSteps == 5

\* Largest number of setInputLevel calls in one behaviour of the slot protocol.
MaxWrites == 3

\* Largest number of getInputLevel calls in one behaviour of the slot protocol.
MaxReads == 2

\* The reset() calls of the refresh thread among the steps of the slot.
MaxResets == 1

\* The channels of the MetersComponent.
NumChannels == 2

(***************************************************************************)
(* Exact rational arithmetic standing for the program's float arithmetic.  *)
(***************************************************************************)
Abs(i) == IF i < 0 THEN -i ELSE i

RECURSIVE GCD(_, _)
GCD(a, b) == IF b = 0 THEN a ELSE GCD(b, a % b)

\* The rational n/d (d # 0) in lowest terms with a positive denominator.
Rat(n, d) ==
    LET g == GCD(Abs(n), Abs(d))
        s == IF d < 0 THEN -1 ELSE 1
    IN  [n |-> (s * n) \div g, d |-> (s * d) \div g]

R(i) == [n |-> i, d |-> 1]

RAdd(a, b) == Rat(a.n * b.d + b.n * a.d, a.d * b.d)

RSub(a, b) == Rat(a.n * b.d - b.n * a.d, a.d * b.d)

RMul(a, b) == Rat(a.n * b.n, a.d * b.d)

\* a / b for b # 0.
RDiv(a, b) == Rat(a.n * b.d, a.d * b.n)

RLt(a, b) == a.n * b.d < b.n * a.d

RLe(a, b) == a.n * b.d <= b.n * a.d

RMax(a, b) == IF RLt(a, b) THEN b ELSE a

RMin(a, b) == IF RLt(b, a) THEN b ELSE a

\* std::clamp (v, lo, hi) and juce::jlimit (lo, hi, v).
RClamp(v, lo, hi) == IF RLt(v, lo) THEN lo ELSE IF RLt(hi, v) THEN hi ELSE v

Max(a, b) == IF a < b THEN b ELSE a

Min(a, b) == IF b < a THEN b ELSE a

(***************************************************************************)
(* juce::Range<float>: [start, end] with start <= end kept by the setters. *)
(***************************************************************************)
\* juce::Range (start, end): the end is never below the start.
Range(s, e) == [start |-> s, end |-> RMax(s, e)]

RangeSetStart(r, s) == [start |-> s, end |-> IF RLt(r.end, s) THEN s ELSE r.end]

RangeSetEnd(r, e) == [start |-> IF RLt(e, r.start) THEN e ELSE r.start, end |-> e]

RangeLength(r) == RSub(r.end, r.start)

RangeClipValue(r, v) == RClamp(v, r.start, r.end)

(***************************************************************************)
(* juce::Decibels::gainToDecibels on an amplitude in millionths.           *)
(***************************************************************************)
\* floor (log10 (n)) for n >= 1; exact on the powers of ten the model uses.
RECURSIVE Log10(_)
Log10(n) == IF n < 10 THEN 0 ELSE 1 + Log10(n \div 10)

\* gain > 0 ? jmax (minusInfinityDb, log10 (gain) * 20) : minusInfinityDb
GainToDecibels(gain) ==
    IF gain > 0
    THEN R(Max(defaultMinusInfinitydB, 20 * Log10(gain) - 120))
    ELSE R(defaultMinusInfinitydB)

(***************************************************************************)
(* juce::Rectangle.  x and w are integers, y and h rationals.              *)
(***************************************************************************)
EmptyRect == [x |-> 0, y |-> R(0), w |-> 0, h |-> R(0)]

IsEmpty(r) == r.w <= 0 \/ r.h.n <= 0

\* Rectangle::withTop: the bottom edge stays, the height never goes negative.
WithTop(r, newTop) ==
    [r EXCEPT !.y = newTop, !.h = RMax(R(0), RSub(RAdd(r.y, r.h), newTop))]

\* Rectangle::withHeight
WithHeight(r, newHeight) == [r EXCEPT !.h = RMax(R(0), newHeight)]

\* Rectangle::proportionOfHeight
ProportionOfHeight(r, p) == RMul(r.h, p)

\* Rectangle::removeFromBottom: <<the strip removed, what is left>>.
RemoveFromBottom(r, amount) ==
    LET a == RMin(R(amount), r.h)
    IN  << [r EXCEPT !.y = RSub(RAdd(r.y, r.h), a), !.h = a],
           [r EXCEPT !.h = RSub(r.h, a)] >>

\* Rectangle::removeFromTop: <<the strip removed, what is left>>.
RemoveFromTop(r, amount) ==
    LET a == RMin(R(amount), r.h)
    IN  << [r EXCEPT !.h = a],
           [r EXCEPT !.y = RAdd(r.y, a), !.h = RSub(r.h, a)] >>

(***************************************************************************)
(* Options and SegmentOptions.                                             *)
(***************************************************************************)
DefaultTickMarks == << R(0), R(-3), R(-6), R(-9), R(-12), R(-18), R(-30), R(-40), R(-50) >>

\* struct Options with its default member initialisers.
DefaultOptions ==
    [enabled               |-> TRUE,
     valueEnabled          |-> FALSE,
     decayTime_ms          |-> kDefaultDecay_ms,
     peakDecayTime_ms      |-> kPeakDefaultDecay_ms,
     refreshRate           |-> 30,
     showPeakHoldIndicator |-> TRUE,
     showClipIndicator     |-> TRUE,
     tickMarks             |-> DefaultTickMarks]

SegOpt(ls, le, ms, me) == [levelRange |-> Range(ls, le), meterRange |-> Range(ms, me)]

\* MeterScales::getDefaultScale()
getDefaultScale ==
    << SegOpt(R(-60), R(-18), R(0), Rat(1, 2)),
       SegOpt(R(-18), R(-3), Rat(1, 2), Rat(9, 10)),
       SegOpt(R(-3), R(0), Rat(9, 10), R(1)) >>

(***************************************************************************)
(* Segment: one slice of the decibel scale.  Every operation is a function *)
(* from the segment (a record of its members) to the segment after it.     *)
(***************************************************************************)
\* Helpers::containsUpTo (range, value), whose definition is in a header
\* outside the sources at hand: the containment rule of the specification,
\* start <= value < end.
containsUpTo(range, value) == RLe(range.start, value) /\ RLt(value, range.end)

\* The share of the segment's level range that level_db covers, in [0, 1].
LevelRatio(seg, level_db) ==
    RClamp(RDiv(RSub(level_db, seg.segmentOptions.levelRange.start),
                RangeLength(seg.segmentOptions.levelRange)),
           R(0), R(1))

\* updateLevelBounds marking the segment dirty whether or not the fill moved.
Segment_updateLevelBoundsAlwaysDirty(seg) ==
    IF IsEmpty(seg.segmentBounds)
    THEN seg
    ELSE LET levelRatio  == LevelRatio(seg, seg.currentLevel_db)
             levelBounds == WithTop(seg.segmentBounds,
                                RAdd(seg.segmentBounds.y,
                                     ProportionOfHeight(seg.segmentBounds, RSub(R(1), levelRatio))))
         IN  [seg EXCEPT !.drawnBounds = levelBounds, !.isDirty = TRUE]

\* updateLevelBounds without the clamp of the ratio.
Segment_updateLevelBoundsUnclamped(seg) ==
    IF IsEmpty(seg.segmentBounds)
    THEN seg
    ELSE LET levelRatio  == RDiv(RSub(seg.currentLevel_db, seg.segmentOptions.levelRange.start),
                                 RangeLength(seg.segmentOptions.levelRange))
             levelBounds == WithTop(seg.segmentBounds,
                                RAdd(seg.segmentBounds.y,
                                     ProportionOfHeight(seg.segmentBounds, RSub(R(1), levelRatio))))
         IN  IF seg.drawnBounds = levelBounds
             THEN seg
             ELSE [seg EXCEPT !.drawnBounds = levelBounds, !.isDirty = TRUE]

Segment_updateLevelBounds(seg) ==
    IF IsEmpty(seg.segmentBounds)
    THEN seg
    ELSE LET levelRatio  == LevelRatio(seg, seg.currentLevel_db)
             levelBounds == WithTop(seg.segmentBounds,
                                RAdd(seg.segmentBounds.y,
                                     ProportionOfHeight(seg.segmentBounds, RSub(R(1), levelRatio))))
         IN  IF seg.drawnBounds = levelBounds
             THEN seg
             ELSE [seg EXCEPT !.drawnBounds = levelBounds, !.isDirty = TRUE]

Segment_updatePeakHoldBounds(seg) ==
    LET inRange       == containsUpTo(seg.segmentOptions.levelRange, seg.peakHoldLevel_db)
        peakHoldRatio == LevelRatio(seg, seg.peakHoldLevel_db)
        peakHoldY     == RAdd(seg.segmentBounds.y,
                              ProportionOfHeight(seg.segmentBounds, RSub(R(1), peakHoldRatio)))
        peakHoldBounds ==
            IF inRange
            THEN WithHeight(WithTop(seg.segmentBounds, peakHoldY), R(kPeakHoldHeight))
            ELSE EmptyRect
    IN  IF inRange /\ peakHoldRatio = R(0)
        THEN seg
        ELSE IF peakHoldBounds = seg.drawnPeakHoldBounds
             THEN seg
             ELSE [seg EXCEPT !.peakHoldBounds = peakHoldBounds, !.isDirty = TRUE]

Segment_setMeterBounds(seg, meterBounds) ==
    LET segmentBounds ==
            WithHeight([meterBounds EXCEPT
                            !.y = RAdd(meterBounds.y,
                                       ProportionOfHeight(meterBounds,
                                           RSub(R(1), seg.segmentOptions.meterRange.end)))],
                       ProportionOfHeight(meterBounds, RangeLength(seg.segmentOptions.meterRange)))
        s1 == [seg EXCEPT !.meterBounds = meterBounds, !.segmentBounds = segmentBounds]
    IN  [Segment_updatePeakHoldBounds(Segment_updateLevelBounds(s1)) EXCEPT !.isDirty = TRUE]

\* setLevel with the peak hold following the level down as well as up.
Segment_setLevelPeakFollows(seg, level_db) ==
    LET s1 == IF level_db # seg.currentLevel_db
              THEN Segment_updateLevelBounds([seg EXCEPT !.currentLevel_db = level_db])
              ELSE seg
    IN  IF s1.peakHoldLevel_db # level_db
        THEN Segment_updatePeakHoldBounds([s1 EXCEPT !.peakHoldLevel_db = level_db])
        ELSE s1

\* setLevel leaving the held peak where it is.
Segment_setLevelKeepingPeak(seg, level_db) ==
    IF level_db # seg.currentLevel_db
    THEN Segment_updateLevelBounds([seg EXCEPT !.currentLevel_db = level_db])
    ELSE seg

Segment_setLevel(seg, level_db) ==
    LET s1 == IF level_db # seg.currentLevel_db
              THEN Segment_updateLevelBounds([seg EXCEPT !.currentLevel_db = level_db])
              ELSE seg
    IN  IF RLt(s1.peakHoldLevel_db, level_db)
        THEN Segment_updatePeakHoldBounds([s1 EXCEPT !.peakHoldLevel_db = level_db])
        ELSE s1

Segment_resetPeakHold(seg) ==
    LET b == [seg.peakHoldBounds EXCEPT !.h = R(0)]
    IN  [seg EXCEPT !.peakHoldBounds = b,
                    !.peakHoldLevel_db = R(kMinLevel_db),
                    !.drawnPeakHoldBounds = b,
                    !.isDirty = TRUE]

\* The tick marks of the options that lie in the segment's level range.
TicksIn(range, ticks) == SelectSeq(ticks, LAMBDA t : containsUpTo(range, t))

\* setMeterOptions also putting the segment's level back to the minimum.
Segment_setMeterOptionsClearingLevel(seg, meterOptions) ==
    [seg EXCEPT !.meterOptions = meterOptions,
                !.tickMarks = TicksIn(seg.segmentOptions.levelRange, meterOptions.tickMarks),
                !.currentLevel_db = R(kMinLevel_db),
                !.isDirty = TRUE]

Segment_setMeterOptions(seg, meterOptions) ==
    [seg EXCEPT !.meterOptions = meterOptions,
                !.tickMarks = TicksIn(seg.segmentOptions.levelRange, meterOptions.tickMarks),
                !.isDirty = TRUE]

Segment_setIsLabelStrip(seg, isLabelStrip) == [seg EXCEPT !.isLabelStrip = isLabelStrip]

Segment_setSegmentOptions(seg, segmentOptions) ==
    LET s1 == [seg EXCEPT !.segmentOptions = segmentOptions]
        s2 == IF ~IsEmpty(s1.meterBounds) THEN Segment_setMeterBounds(s1, s1.meterBounds) ELSE s1
    IN  [s2 EXCEPT !.isDirty = TRUE]

Segment_draw(seg) ==
    LET s1 == [seg EXCEPT !.isDirty = FALSE]
    IN  IF s1.isLabelStrip
        THEN s1
        ELSE IF s1.meterOptions.showPeakHoldIndicator /\ ~IsEmpty(s1.peakHoldBounds)
             THEN [s1 EXCEPT !.drawnPeakHoldBounds = s1.peakHoldBounds]
             ELSE s1

\* A segment before its constructor body runs (default member initialisers).
BlankSegment ==
    [segmentOptions      |-> SegOpt(R(kMinLevel_db), R(kMaxLevel_db), R(0), R(1)),
     meterOptions        |-> DefaultOptions,
     tickMarks           |-> << >>,
     isLabelStrip        |-> FALSE,
     meterBounds         |-> EmptyRect,
     segmentBounds       |-> EmptyRect,
     drawnBounds         |-> EmptyRect,
     peakHoldBounds      |-> EmptyRect,
     drawnPeakHoldBounds |-> EmptyRect,
     currentLevel_db     |-> R(kMinLevel_db),
     peakHoldLevel_db    |-> R(kMinLevel_db),
     isDirty             |-> FALSE]

\* Segment::Segment (meterOptions, segmentOptions)
NewSegment(meterOptions, segmentOptions) ==
    Segment_setMeterOptions(Segment_setSegmentOptions(BlankSegment, segmentOptions), meterOptions)

(***************************************************************************)
(* State.                                                                  *)
(***************************************************************************)
VARIABLES
    m_inputLevel,               \* std::atomic<float>: the amplitude slot
    m_inputLevelRead,           \* std::atomic<bool>: the slot has been read
    m_meterLevel_db,            \* the displayed (decayed) level
    m_meterOptions,
    m_segments,
    m_meterRange,               \* union of the segments' level ranges
    m_decayRate,                \* dB per millisecond
    m_refreshPeriod_ms,
    m_previousRefreshTime,
    m_previousPeakHoldTime,
    m_totalPeakHoldTimePassed,
    m_clip,                     \* the clip latch
    m_clipDirty,
    m_peakHoldDirty,
    m_isLabelStrip,
    m_meterBounds,
    m_levelBounds,
    m_valueBounds,
    m_clipIndBounds,
    m_active,                   \* MeterChannel::m_active of the channel this Level is in
    otherChannels,              \* the slots of the other channels of the MetersComponent
    producer,                   \* the audio thread's position inside setInputLevel
    consumer,                   \* the refresh thread's position inside refreshMeterLevel
    counter,                    \* juce::Time::getMillisecondCounter()
    lastOp,                     \* the call (or atomic step) that made the last step
    count,                      \* history: how many steps of each bounded kind
    slotHist,                   \* history of the writes and reads of the slot
    clipHist,                   \* history of the levels that reached 0 dB
    decayHist,                  \* history of the current decay run
    peakHist,                   \* history of the peak hold
    valueHist                   \* history of the amplitudes written and the levels read

slotVars == << m_inputLevel, m_inputLevelRead >>

clipVars == << m_clip, m_clipDirty >>

optionVars == << m_meterOptions, m_decayRate, m_refreshPeriod_ms >>

\* What the components around the Level give it or keep beside it.
componentVars == << m_meterBounds, m_levelBounds, m_valueBounds, m_clipIndBounds, m_active,
                   otherChannels >>

peakTimeVars == << m_previousPeakHoldTime, m_totalPeakHoldTimePassed >>

levelVars == << m_meterLevel_db, m_previousRefreshTime >>

histVars == << count, slotHist, clipHist, decayHist, peakHist, valueHist >>

vars == << m_inputLevel, m_inputLevelRead, m_meterLevel_db, m_meterOptions, m_segments,
           m_meterRange, m_decayRate, m_refreshPeriod_ms, m_previousRefreshTime,
           m_previousPeakHoldTime, m_totalPeakHoldTimePassed, m_clip, m_clipDirty,
           m_peakHoldDirty, m_isLabelStrip, m_meterBounds, m_levelBounds, m_valueBounds,
           m_clipIndBounds, m_active, otherChannels, producer, consumer, counter, lastOp,
           count, slotHist, clipHist, decayHist, peakHist, valueHist >>

(***************************************************************************)
(* The millisecond counter and int arithmetic on its samples.              *)
(***************************************************************************)
IntMax == (CounterModulus \div 2) - 1

IntMin == IntMax + 1 - CounterModulus

\* static_cast<int> of an unsigned counter value.
ToInt(c) == IF c > IntMax THEN c - CounterModulus ELSE c

\* An out-of-range int brought back into range modulo the counter's modulus.
WrapInt(i) == ((i - IntMin) % CounterModulus) + IntMin

\* The values a build can produce for the int subtraction a - b: the exact
\* difference when it is representable; on signed overflow (undefined
\* behaviour) either the wrapped value or the difference in wider arithmetic.
IntSub(a, b) ==
    IF a - b >= IntMin /\ a - b <= IntMax THEN {a - b} ELSE {WrapInt(a - b), a - b}

\* The counter value read dt milliseconds after the last reading.
CounterAfter(dt) == (counter + dt) % CounterModulus

(***************************************************************************)
(* Level: pure parts.                                                      *)
(***************************************************************************)
MapSegments(Op(_), segs) == [i \in DOMAIN segs |-> Op(segs[i])]

\* Level::getPeakHoldLevel on a list of segments.
PeakHoldLevelOf(segs) == IF segs = << >> THEN R(kMinLevel_db) ELSE segs[1].peakHoldLevel_db

getPeakHoldLevel == PeakHoldLevelOf(m_segments)

\* The value Level::getInputLevel returns for the amplitude it loads.
InputLevelOf(amplitude, range) == RangeClipValue(range, GainToDecibels(amplitude))

\* setInputLevel storing the latest amplitude whether or not the slot was read.
StoredLatest(read, old, newLevel) == newLevel

\* setInputLevel adding newLevel to an unread slot.
StoredSum(read, old, newLevel) == IF read THEN newLevel ELSE old + newLevel

\* The value Level::setInputLevel stores: newLevel when the slot was read,
\* else the larger of the slot and newLevel.
StoredLevel(read, old, newLevel) == IF read THEN newLevel ELSE Max(old, newLevel)

\* getLinearDecayedLevel with the attack slewed at the decay rate.
AttackSlewedLevel(level_db, newLevel_db, timePassed, decayRate) ==
    IF RLe(level_db, newLevel_db)
    THEN RMin(newLevel_db, RAdd(level_db, RMul(R(timePassed), decayRate)))
    ELSE RMax(newLevel_db, RSub(level_db, RMul(R(timePassed), decayRate)))

\* getLinearDecayedLevel decaying by one refresh period per call, whatever
\* the time that passed.
PerCallDecayedLevel(level_db, newLevel_db, timePassed, decayRate) ==
    IF RLe(level_db, newLevel_db)
    THEN newLevel_db
    ELSE RMax(newLevel_db, RSub(level_db, RMul(m_refreshPeriod_ms, decayRate)))

\* Level::getLinearDecayedLevel for the elapsed time timePassed.
LinearDecayedLevel(level_db, newLevel_db, timePassed, decayRate) ==
    IF RLe(level_db, newLevel_db)
    THEN newLevel_db
    ELSE RMax(newLevel_db, RSub(level_db, RMul(R(timePassed), decayRate)))

\* Level::calculateDecayCoeff: the options with decay time and refresh rate
\* clamped.
\* The options with the decay time limited from above only.
ClampedFromAboveOptions(meterOptions) ==
    [meterOptions EXCEPT
        !.decayTime_ms = Min(kMaxDecay_ms, meterOptions.decayTime_ms),
        !.refreshRate  = Max(1, meterOptions.refreshRate)]

ClampedOptions(meterOptions) ==
    [meterOptions EXCEPT
        !.decayTime_ms = Max(kMinDecay_ms, Min(kMaxDecay_ms, meterOptions.decayTime_ms)),
        !.refreshRate  = Max(1, meterOptions.refreshRate)]

\* The decay rate for the default decay time, whatever the options say.
DecayRateForDefaultTime(range, meterOptions) == RDiv(RangeLength(range), R(kDefaultDecay_ms))

DecayRateOf(range, meterOptions) == RDiv(RangeLength(range), R(meterOptions.decayTime_ms))

RefreshPeriodOf(meterOptions) == Rat(1000, meterOptions.refreshRate)

\* synchronizeMeterOptions passing on the label-strip flag only.
SynchronizedLabelStripOnly(segs, meterOptions, isLabelStrip) ==
    MapSegments(LAMBDA seg : Segment_setIsLabelStrip(seg, isLabelStrip), segs)

\* Level::synchronizeMeterOptions on a list of segments.
Synchronized(segs, meterOptions, isLabelStrip) ==
    MapSegments(LAMBDA seg : Segment_setIsLabelStrip(Segment_setMeterOptions(seg, meterOptions),
                                                     isLabelStrip),
                segs)

\* The loop of Level::setMeterSegments over the range: the union of the old
\* range and the ranges of the list.
RECURSIVE MeterRangeWith(_, _)
MeterRangeWith(range, segmentsOptions) ==
    IF segmentsOptions = << >>
    THEN range
    ELSE LET so == Head(segmentsOptions)
             r1 == RangeSetStart(range, RMin(range.start, so.levelRange.start))
             r2 == RangeSetEnd(r1, RMax(r1.end, so.levelRange.end))
         IN  MeterRangeWith(r2, Tail(segmentsOptions))

\* The segments Level::setMeterSegments leaves.
SegmentsFor(segmentsOptions, meterOptions, levelBounds, isLabelStrip) ==
    Synchronized(
        MapSegments(LAMBDA seg : Segment_setMeterBounds(seg, levelBounds),
                    [i \in DOMAIN segmentsOptions |-> NewSegment(meterOptions, segmentsOptions[i])]),
        meterOptions, isLabelStrip)

(***************************************************************************)
(* Level::setInputLevel, on the audio thread.  Each atomic load or store   *)
(* is one step; setInputLevel(newLevel) is the whole call with no step of  *)
(* the other thread in between.  No action constrains the history          *)
(* variables: the specifications below add their bookkeeping.              *)
(***************************************************************************)
ProducerIdle == [pc |-> "idle", newLevel |-> 0, read |-> FALSE, old |-> 0]

Call(name) == [op |-> name, arg |-> 0]

\* m_inputLevelRead.load()
Producer_loadRead(newLevel) ==
    /\ producer.pc = "idle"
    /\ producer' = [pc |-> "loadedRead", newLevel |-> newLevel,
                    read |-> m_inputLevelRead, old |-> 0]
    /\ lastOp' = Call("setInputLevel.loadRead")
    /\ UNCHANGED << slotVars, levelVars, optionVars, m_segments, m_meterRange, peakTimeVars,
                    clipVars, m_peakHoldDirty, m_isLabelStrip, componentVars, consumer, counter >>

\* m_inputLevel.load(), evaluated only when the slot was not read.
Producer_loadLevel ==
    /\ producer.pc = "loadedRead"
    /\ ~producer.read
    /\ producer' = [producer EXCEPT !.pc = "loadedLevel", !.old = m_inputLevel]
    /\ lastOp' = Call("setInputLevel.loadLevel")
    /\ UNCHANGED << slotVars, levelVars, optionVars, m_segments, m_meterRange, peakTimeVars,
                    clipVars, m_peakHoldDirty, m_isLabelStrip, componentVars, consumer, counter >>

\* The store of the amplitude also writing the displayed level.
Producer_storeLevelShowing ==
    /\ \/ producer.pc = "loadedRead" /\ producer.read
       \/ producer.pc = "loadedLevel"
    /\ m_inputLevel' = StoredLevel(producer.read, producer.old, producer.newLevel)
    /\ m_meterLevel_db' = InputLevelOf(producer.newLevel, m_meterRange)
    /\ producer' = [producer EXCEPT !.pc = "storedLevel"]
    /\ lastOp' = Call("setInputLevel.storeLevel")
    /\ UNCHANGED << m_inputLevelRead, m_previousRefreshTime, optionVars, m_segments,
                    m_meterRange, peakTimeVars, clipVars, m_peakHoldDirty, m_isLabelStrip,
                    componentVars, consumer, counter >>

\* The store of the amplitude waiting for the slot to have been read.
Producer_storeLevelWhenRead ==
    /\ \/ producer.pc = "loadedRead" /\ producer.read
       \/ producer.pc = "loadedLevel"
    /\ m_inputLevelRead
    /\ m_inputLevel' = StoredLevel(producer.read, producer.old, producer.newLevel)
    /\ producer' = [producer EXCEPT !.pc = "storedLevel"]
    /\ lastOp' = Call("setInputLevel.storeLevel")
    /\ UNCHANGED << m_inputLevelRead, levelVars, optionVars, m_segments, m_meterRange,
                    peakTimeVars, clipVars, m_peakHoldDirty, m_isLabelStrip, componentVars,
                    consumer, counter >>

\* m_inputLevel.store (...)
Producer_storeLevel ==
    /\ \/ producer.pc = "loadedRead" /\ producer.read
       \/ producer.pc = "loadedLevel"
    /\ m_inputLevel' = StoredLevel(producer.read, producer.old, producer.newLevel)
    /\ producer' = [producer EXCEPT !.pc = "storedLevel"]
    /\ lastOp' = Call("setInputLevel.storeLevel")
    /\ UNCHANGED << m_inputLevelRead, levelVars, optionVars, m_segments, m_meterRange,
                    peakTimeVars, clipVars, m_peakHoldDirty, m_isLabelStrip, componentVars,
                    consumer, counter >>

\* m_inputLevelRead.store (false)
Producer_storeRead ==
    /\ producer.pc = "storedLevel"
    /\ m_inputLevelRead' = FALSE
    /\ producer' = ProducerIdle
    /\ lastOp' = [op |-> "setInputLevel.storeRead", arg |-> producer.newLevel]
    /\ UNCHANGED << m_inputLevel, levelVars, optionVars, m_segments, m_meterRange,
                    peakTimeVars, clipVars, m_peakHoldDirty, m_isLabelStrip, componentVars,
                    consumer, counter >>

\* The whole call.
setInputLevel(newLevel) ==
    /\ producer.pc = "idle"
    /\ consumer = "idle"
    /\ m_inputLevel' = StoredLevel(m_inputLevelRead, m_inputLevel, newLevel)
    /\ m_inputLevelRead' = FALSE
    /\ lastOp' = [op |-> "setInputLevel", arg |-> newLevel]
    /\ UNCHANGED << levelVars, optionVars, m_segments, m_meterRange, peakTimeVars, clipVars,
                    m_peakHoldDirty, m_isLabelStrip, componentVars, producer, consumer, counter >>

(***************************************************************************)
(* Level::refreshMeterLevel, on the refresh thread.                        *)
(***************************************************************************)
\* Level::setClipInd against the peak hold of the segments segs.
SetClipInd(segs) ==
    IF RLe(R(0), PeakHoldLevelOf(segs))
    THEN m_clip' = TRUE /\ m_clipDirty' = TRUE
    ELSE UNCHANGED clipVars

\* From the load of m_inputLevel to the end of refreshMeterLevel; the clock
\* is read dt milliseconds after its last reading.
RefreshTail(dt) ==
    /\ counter' = CounterAfter(dt)
    /\ \E timePassed \in IntSub(ToInt(CounterAfter(dt)), m_previousRefreshTime) :
         LET input_db == InputLevelOf(m_inputLevel, m_meterRange)
             level_db == LinearDecayedLevel(m_meterLevel_db, input_db, timePassed, m_decayRate)
         IN  /\ m_meterLevel_db' = level_db
             /\ m_previousRefreshTime' = ToInt(CounterAfter(dt))
             /\ m_peakHoldDirty' = (m_peakHoldDirty \/ RLt(getPeakHoldLevel, level_db))
             /\ m_segments' = MapSegments(LAMBDA seg : Segment_setLevel(seg, level_db), m_segments)

\* setClipInd() and the store of getInputLevel: m_inputLevelRead.store (true)
Refresh_storeRead ==
    /\ consumer = "idle"
    /\ SetClipInd(m_segments)
    /\ m_inputLevelRead' = TRUE
    /\ consumer' = "getInputLevel"
    /\ lastOp' = Call("refreshMeterLevel.storeRead")
    /\ UNCHANGED << m_inputLevel, levelVars, optionVars, m_segments, m_meterRange,
                    peakTimeVars, m_peakHoldDirty, m_isLabelStrip, componentVars, producer,
                    counter >>

\* m_inputLevel.load() and the rest of refreshMeterLevel.
Refresh_loadLevel(dt) ==
    /\ consumer = "getInputLevel"
    /\ RefreshTail(dt)
    /\ consumer' = "idle"
    /\ lastOp' = Call("refreshMeterLevel.loadLevel")
    /\ UNCHANGED << slotVars, optionVars, m_meterRange, peakTimeVars, clipVars,
                    m_isLabelStrip, componentVars, producer >>

\* refreshMeterLevel whose getInputLevel empties the slot it read.
refreshMeterLevelEmptying(dt) ==
    /\ producer.pc = "idle"
    /\ consumer = "idle"
    /\ SetClipInd(m_segments)
    /\ m_inputLevelRead' = TRUE
    /\ RefreshTail(dt)
    /\ m_inputLevel' = 0
    /\ lastOp' = Call("refreshMeterLevel")
    /\ UNCHANGED << optionVars, m_meterRange, peakTimeVars,
                    m_isLabelStrip, componentVars, producer, consumer >>

\* The whole call.
refreshMeterLevel(dt) ==
    /\ producer.pc = "idle"
    /\ consumer = "idle"
    /\ SetClipInd(m_segments)
    /\ m_inputLevelRead' = TRUE
    /\ RefreshTail(dt)
    /\ lastOp' = Call("refreshMeterLevel")
    /\ UNCHANGED << m_inputLevel, optionVars, m_meterRange, peakTimeVars,
                    m_isLabelStrip, componentVars, producer, consumer >>

(***************************************************************************)
(* The other operations of Level, all on the refresh thread.               *)
(***************************************************************************)
\* The peak hold expires in a drawMeter that finds this much time passed.
Expires(timePassed) ==
    m_totalPeakHoldTimePassed + timePassed >= m_meterOptions.peakDecayTime_ms

\* Level::drawMeter, reached from MeterChannel::paint, which returns at once
\* for a component without a size.
drawMeter(dt) ==
    /\ consumer = "idle"
    /\ ~IsEmpty(m_meterBounds)
    /\ counter' = CounterAfter(dt)
    /\ \E timePassed \in IntSub(ToInt(CounterAfter(dt)), m_previousPeakHoldTime) :
         LET segs == IF Expires(timePassed)
                     THEN MapSegments(Segment_resetPeakHold, m_segments)
                     ELSE m_segments
         IN  /\ m_totalPeakHoldTimePassed' =
                    IF Expires(timePassed) THEN 0 ELSE m_totalPeakHoldTimePassed + timePassed
             /\ m_previousPeakHoldTime' = ToInt(CounterAfter(dt))
             /\ m_peakHoldDirty' = (m_peakHoldDirty \/ Expires(timePassed))
             /\ SetClipInd(segs)
             /\ m_segments' = MapSegments(Segment_draw, segs)
             /\ lastOp' = [op |-> "drawMeter", arg |-> IF Expires(timePassed) THEN 1 ELSE 0]
    /\ UNCHANGED << slotVars, levelVars, optionVars, m_meterRange, m_isLabelStrip,
                    componentVars, producer, consumer >>

\* reset also resetting the peak hold of the segments.
resetWithPeakHold ==
    /\ consumer = "idle"
    /\ m_inputLevel' = 0
    /\ m_meterLevel_db' = R(kMinLevel_db)
    /\ m_previousRefreshTime' = 0
    /\ m_segments' = [i \in DOMAIN m_segments |-> Segment_resetPeakHold(m_segments[i])]
    /\ m_peakHoldDirty' = TRUE
    /\ lastOp' = Call("reset")
    /\ UNCHANGED << m_inputLevelRead, optionVars, m_meterRange, peakTimeVars, clipVars,
                    m_isLabelStrip, componentVars, producer, consumer, counter >>

\* reset also clearing the clip latch.
resetWithClip ==
    /\ consumer = "idle"
    /\ m_inputLevel' = 0
    /\ m_meterLevel_db' = R(kMinLevel_db)
    /\ m_previousRefreshTime' = 0
    /\ m_clip' = FALSE
    /\ lastOp' = Call("reset")
    /\ UNCHANGED << m_inputLevelRead, optionVars, m_segments, m_meterRange, peakTimeVars,
                    m_clipDirty, m_peakHoldDirty, m_isLabelStrip, componentVars, producer,
                    consumer, counter >>

\* Level::reset
reset ==
    /\ consumer = "idle"
    /\ m_inputLevel' = 0
    /\ m_meterLevel_db' = R(kMinLevel_db)
    /\ m_previousRefreshTime' = 0
    /\ lastOp' = Call("reset")
    /\ UNCHANGED << m_inputLevelRead, optionVars, m_segments, m_meterRange, peakTimeVars,
                    clipVars, m_peakHoldDirty, m_isLabelStrip, componentVars, producer,
                    consumer, counter >>

\* resetPeakHold also putting the displayed level back to the minimum.
resetPeakHoldAndLevel ==
    /\ consumer = "idle"
    /\ m_segments' = MapSegments(Segment_resetPeakHold, m_segments)
    /\ m_peakHoldDirty' = TRUE
    /\ m_meterLevel_db' = R(kMinLevel_db)
    /\ lastOp' = Call("resetPeakHold")
    /\ UNCHANGED << slotVars, m_previousRefreshTime, optionVars, m_meterRange, peakTimeVars,
                    clipVars, m_isLabelStrip, componentVars, producer, consumer, counter >>

\* Level::resetPeakHold
resetPeakHold ==
    /\ consumer = "idle"
    /\ m_segments' = MapSegments(Segment_resetPeakHold, m_segments)
    /\ m_peakHoldDirty' = TRUE
    /\ lastOp' = Call("resetPeakHold")
    /\ UNCHANGED << slotVars, levelVars, optionVars, m_meterRange, peakTimeVars, clipVars,
                    m_isLabelStrip, componentVars, producer, consumer, counter >>

\* resetClipInd also resetting the peak hold of the segments.
resetClipIndAndPeakHold ==
    /\ consumer = "idle"
    /\ m_clip' = FALSE
    /\ m_clipDirty' = TRUE
    /\ m_segments' = MapSegments(Segment_resetPeakHold, m_segments)
    /\ lastOp' = Call("resetClipInd")
    /\ UNCHANGED << slotVars, levelVars, optionVars, m_meterRange, peakTimeVars,
                    m_peakHoldDirty, m_isLabelStrip, componentVars, producer, consumer,
                    counter >>

\* Level::resetClipInd
resetClipInd ==
    /\ consumer = "idle"
    /\ m_clip' = FALSE
    /\ m_clipDirty' = TRUE
    /\ lastOp' = Call("resetClipInd")
    /\ UNCHANGED << slotVars, levelVars, optionVars, m_segments, m_meterRange, peakTimeVars,
                    m_peakHoldDirty, m_isLabelStrip, componentVars, producer, consumer,
                    counter >>

\* The options and the values derived from them after calculateDecayCoeff
\* and synchronizeMeterOptions, for the options meterOptions just assigned.
OptionsChanged(meterOptions, name) ==
    /\ consumer = "idle"
    /\ m_meterOptions' = ClampedOptions(meterOptions)
    /\ m_refreshPeriod_ms' = RefreshPeriodOf(ClampedOptions(meterOptions))
    /\ m_decayRate' = DecayRateOf(m_meterRange, ClampedOptions(meterOptions))
    /\ m_segments' = Synchronized(m_segments, ClampedOptions(meterOptions), m_isLabelStrip)
    /\ m_peakHoldDirty' = TRUE
    /\ lastOp' = Call(name)
    /\ UNCHANGED << slotVars, levelVars, m_meterRange, peakTimeVars, clipVars,
                    m_isLabelStrip, componentVars, producer, consumer, counter >>

\* Level::setMeterOptions
setMeterOptions(meterOptions) == OptionsChanged(meterOptions, "setMeterOptions")

\* Level::setDecay
setDecay(decay_ms) ==
    OptionsChanged([m_meterOptions EXCEPT !.decayTime_ms = decay_ms], "setDecay")

\* Level::setRefreshRate
setRefreshRate(refreshRate_hz) ==
    OptionsChanged([m_meterOptions EXCEPT !.refreshRate = refreshRate_hz], "setRefreshRate")

\* Level::setMeterSegments
setMeterSegments(segmentsOptions) ==
    /\ consumer = "idle"
    /\ m_segments' = SegmentsFor(segmentsOptions, m_meterOptions, m_levelBounds, m_isLabelStrip)
    /\ m_meterRange' = MeterRangeWith(m_meterRange, segmentsOptions)
    /\ m_peakHoldDirty' = TRUE
    /\ m_meterOptions' = ClampedOptions(m_meterOptions)
    /\ m_refreshPeriod_ms' = RefreshPeriodOf(ClampedOptions(m_meterOptions))
    /\ m_decayRate' = DecayRateOf(MeterRangeWith(m_meterRange, segmentsOptions),
                                  ClampedOptions(m_meterOptions))
    /\ lastOp' = Call("setMeterSegments")
    /\ UNCHANGED << slotVars, levelVars, peakTimeVars, clipVars, m_isLabelStrip,
                    componentVars, producer, consumer, counter >>

\* Level::setIsLabelStrip
setIsLabelStrip(isLabelStrip) ==
    /\ consumer = "idle"
    /\ m_isLabelStrip' = isLabelStrip
    /\ m_segments' = Synchronized(m_segments, m_meterOptions, isLabelStrip)
    /\ m_peakHoldDirty' = TRUE
    /\ lastOp' = Call("setIsLabelStrip")
    /\ UNCHANGED << slotVars, levelVars, optionVars, m_meterRange, peakTimeVars, clipVars,
                    componentVars, producer, consumer, counter >>

\* Level::setMeterBounds
setMeterBounds(bounds) ==
    /\ consumer = "idle"
    /\ lastOp' = Call("setMeterBounds")
    /\ IF bounds = m_meterBounds
       THEN UNCHANGED << componentVars, m_segments, m_peakHoldDirty, m_clipDirty >>
       ELSE LET value == IF m_meterOptions.valueEnabled
                         THEN RemoveFromBottom(bounds, kDefaultHeaderHeight)
                         ELSE << EmptyRect, bounds >>
                clip  == IF m_meterOptions.showClipIndicator
                         THEN RemoveFromTop(value[2], 12)
                         ELSE << EmptyRect, value[2] >>
            IN  /\ m_meterBounds' = bounds
                /\ m_valueBounds' = value[1]
                /\ m_levelBounds' = clip[2]
                /\ m_clipIndBounds' = IF m_isLabelStrip
                                      THEN EmptyRect
                                      ELSE IF m_meterOptions.showClipIndicator
                                           THEN [clip[1] EXCEPT !.h = R(6)]
                                           ELSE clip[1]
                /\ m_segments' = MapSegments(LAMBDA seg : Segment_setMeterBounds(seg, clip[2]),
                                             m_segments)
                /\ m_peakHoldDirty' = TRUE
                /\ m_clipDirty' = TRUE
                /\ UNCHANGED << m_active, otherChannels >>
    /\ UNCHANGED << slotVars, levelVars, optionVars, m_meterRange, peakTimeVars, m_clip,
                    m_isLabelStrip, producer, consumer, counter >>

\* Level::getDirtyBounds: the two dirty flags of the engine are cleared.
\* getDirtyBounds also clearing the dirty flag of the segments it reported.
getDirtyBoundsClearingSegments ==
    /\ consumer = "idle"
    /\ m_peakHoldDirty' = FALSE
    /\ m_clipDirty' = FALSE
    /\ m_segments' = [i \in DOMAIN m_segments |-> [m_segments[i] EXCEPT !.isDirty = FALSE]]
    /\ lastOp' = Call("getDirtyBounds")
    /\ UNCHANGED << slotVars, levelVars, optionVars, m_meterRange, peakTimeVars,
                    m_clip, m_isLabelStrip, componentVars, producer, consumer, counter >>

getDirtyBounds ==
    /\ consumer = "idle"
    /\ m_peakHoldDirty' = FALSE
    /\ m_clipDirty' = FALSE
    /\ lastOp' = Call("getDirtyBounds")
    /\ UNCHANGED << slotVars, levelVars, optionVars, m_segments, m_meterRange, peakTimeVars,
                    m_clip, m_isLabelStrip, componentVars, producer, consumer, counter >>

\* MetersComponent::clearMeters: setInputLevel (0.0f) on every channel, then
\* MeterChannel::refresh (true), which for a channel that is showing, has a
\* size and is active runs refreshMeterLevel and getDirtyBounds; refreshed
\* are the other channels that are.
clearMeters(dt, showing) ==
    LET cleared == StoredLevel(m_inputLevelRead, m_inputLevel, 0)
    IN  /\ producer.pc = "idle"
        /\ consumer = "idle"
        /\ m_inputLevel' = cleared
        /\ IF showing /\ ~IsEmpty(m_meterBounds) /\ m_active
           THEN /\ m_inputLevelRead' = TRUE
                /\ m_clip' = (m_clip \/ RLe(R(0), PeakHoldLevelOf(m_segments)))
                /\ m_clipDirty' = FALSE
                /\ m_peakHoldDirty' = FALSE
                /\ counter' = CounterAfter(dt)
                /\ \E timePassed \in IntSub(ToInt(CounterAfter(dt)), m_previousRefreshTime) :
                     LET input_db == InputLevelOf(cleared, m_meterRange)
                         level_db == LinearDecayedLevel(m_meterLevel_db, input_db, timePassed,
                                                        m_decayRate)
                     IN  /\ m_meterLevel_db' = level_db
                         /\ m_previousRefreshTime' = ToInt(CounterAfter(dt))
                         /\ m_segments' = MapSegments(LAMBDA seg : Segment_setLevel(seg, level_db),
                                                      m_segments)
                /\ lastOp' = [op |-> "clearMeters", arg |-> 1]
           ELSE /\ m_inputLevelRead' = FALSE
                /\ lastOp' = [op |-> "clearMeters", arg |-> 0]
                /\ UNCHANGED << levelVars, m_segments, clipVars, m_peakHoldDirty, counter >>
        /\ \E refreshed \in SUBSET (DOMAIN otherChannels) :
             /\ ~showing => refreshed = {}
             /\ otherChannels' =
                  [i \in DOMAIN otherChannels |->
                      [m_inputLevel     |-> StoredLevel(otherChannels[i].m_inputLevelRead,
                                                        otherChannels[i].m_inputLevel, 0),
                       m_inputLevelRead |-> i \in refreshed]]
        /\ UNCHANGED << optionVars, m_meterRange, peakTimeVars, m_isLabelStrip, m_meterBounds,
                        m_levelBounds, m_valueBounds, m_clipIndBounds, m_active, producer,
                        consumer >>

(***************************************************************************)
(* MeterChannel and MetersComponent around the Level.                      *)
(***************************************************************************)
\* The variables of the Level that the calls of the channel leave alone.
levelFrame == << optionVars, m_meterRange, peakTimeVars, m_isLabelStrip, m_meterBounds,
                m_levelBounds, m_valueBounds, m_clipIndBounds, producer, consumer >>

\* MeterChannel::refresh taking no account of m_active.
MeterChannel_refreshInactive(dt, showing) ==
    /\ producer.pc = "idle"
    /\ consumer = "idle"
    /\ lastOp' = [op |-> "MeterChannel.refresh", arg |-> IF showing THEN 1 ELSE 0]
    /\ IF showing /\ ~IsEmpty(m_meterBounds)
       THEN /\ m_inputLevelRead' = TRUE
            /\ m_clip' = (m_clip \/ RLe(R(0), PeakHoldLevelOf(m_segments)))
            /\ m_clipDirty' = FALSE
            /\ \E timePassed \in IntSub(ToInt(CounterAfter(dt)), m_previousRefreshTime) :
                 LET input_db == InputLevelOf(m_inputLevel, m_meterRange)
                     level_db == LinearDecayedLevel(m_meterLevel_db, input_db, timePassed,
                                                    m_decayRate)
                 IN  /\ m_meterLevel_db' = level_db
                     /\ m_previousRefreshTime' = ToInt(CounterAfter(dt))
                     /\ m_segments' = MapSegments(LAMBDA seg : Segment_setLevel(seg, level_db),
                                                  m_segments)
            /\ m_peakHoldDirty' = FALSE
            /\ counter' = CounterAfter(dt)
            /\ UNCHANGED m_inputLevel
       ELSE UNCHANGED << slotVars, levelVars, m_segments, clipVars, m_peakHoldDirty, counter >>
    /\ UNCHANGED << levelFrame, m_active, otherChannels >>

\* MeterChannel::refresh: a channel that is showing, has a size and is active
\* runs refreshMeterLevel and getDirtyBounds; any other leaves its Level alone.
MeterChannel_refresh(dt, showing) ==
    /\ producer.pc = "idle"
    /\ consumer = "idle"
    /\ lastOp' = [op |-> "MeterChannel.refresh", arg |-> IF showing THEN 1 ELSE 0]
    /\ IF showing /\ ~IsEmpty(m_meterBounds) /\ m_active
       THEN /\ m_inputLevelRead' = TRUE
            /\ m_clip' = (m_clip \/ RLe(R(0), PeakHoldLevelOf(m_segments)))
            /\ m_clipDirty' = FALSE
            /\ \E timePassed \in IntSub(ToInt(CounterAfter(dt)), m_previousRefreshTime) :
                 LET input_db == InputLevelOf(m_inputLevel, m_meterRange)
                     level_db == LinearDecayedLevel(m_meterLevel_db, input_db, timePassed,
                                                    m_decayRate)
                 IN  /\ m_meterLevel_db' = level_db
                     /\ m_previousRefreshTime' = ToInt(CounterAfter(dt))
                     /\ m_segments' = MapSegments(LAMBDA seg : Segment_setLevel(seg, level_db),
                                                  m_segments)
            /\ m_peakHoldDirty' = FALSE
            /\ counter' = CounterAfter(dt)
            /\ UNCHANGED m_inputLevel
       ELSE UNCHANGED << slotVars, levelVars, m_segments, clipVars, m_peakHoldDirty, counter >>
    /\ UNCHANGED << levelFrame, m_active, otherChannels >>

\* setActive resetting the Level whether or not the state changes.
setActiveAlwaysResetting(isActive) ==
    /\ producer.pc = "idle"
    /\ consumer = "idle"
    /\ lastOp' = [op |-> "setActive", arg |-> IF isActive THEN 1 ELSE 0]
    /\ m_active' = isActive
    /\ m_inputLevel' = 0
    /\ m_meterLevel_db' = R(kMinLevel_db)
    /\ m_previousRefreshTime' = 0
    /\ UNCHANGED << m_inputLevelRead, m_segments, clipVars, m_peakHoldDirty, counter,
                    otherChannels, levelFrame >>

\* MeterChannel::setActive: nothing for the state the channel is in; else
\* the new state and MeterChannel::reset, which is Level::reset.
setActive(isActive) ==
    /\ producer.pc = "idle"
    /\ consumer = "idle"
    /\ lastOp' = [op |-> "setActive", arg |-> IF isActive THEN 1 ELSE 0]
    /\ IF m_active = isActive
       THEN UNCHANGED << m_active, m_inputLevel, levelVars >>
       ELSE /\ m_active' = isActive
            /\ m_inputLevel' = 0
            /\ m_meterLevel_db' = R(kMinLevel_db)
            /\ m_previousRefreshTime' = 0
    /\ UNCHANGED << m_inputLevelRead, m_segments, clipVars, m_peakHoldDirty, counter,
                    otherChannels, levelFrame >>

\* getMeterChannel sending an index out of range to the nearest channel.
getMeterChannelNearest(meterIndex) == { Max(0, Min(meterIndex, NumChannels - 1)) }

\* MetersComponent::getMeterChannel: the channel of that index, or none
\* (nullptr) for an index that is negative or not below the number of channels.
getMeterChannel(meterIndex) == { meterIndex } \cap (0 .. NumChannels - 1)

\* MetersComponent::setInputLevel; channel 0 is the channel of this Level.
MetersComponent_setInputLevel(channel, value) ==
    /\ producer.pc = "idle"
    /\ consumer = "idle"
    /\ lastOp' = [op |-> "MetersComponent.setInputLevel", arg |-> channel]
    /\ IF getMeterChannel(channel) = {}
       THEN UNCHANGED << slotVars, otherChannels >>
       ELSE \E meterChannel \in getMeterChannel(channel) :
              IF meterChannel = 0
              THEN /\ m_inputLevel' = StoredLevel(m_inputLevelRead, m_inputLevel, value)
                   /\ m_inputLevelRead' = FALSE
                   /\ UNCHANGED otherChannels
              ELSE /\ otherChannels' =
                        [otherChannels EXCEPT ![meterChannel] =
                            [m_inputLevel     |-> StoredLevel(@.m_inputLevelRead,
                                                              @.m_inputLevel, value),
                             m_inputLevelRead |-> FALSE]]
                   /\ UNCHANGED slotVars
    /\ UNCHANGED << levelVars, m_segments, clipVars, m_peakHoldDirty, counter, m_active,
                    levelFrame >>

(***************************************************************************)
(* History variables.  Each Track formula relates a history variable to    *)
(* the step just taken, which it recognises by lastOp' and by what the     *)
(* step did to the program's variables; it constrains no program variable. *)
(***************************************************************************)
\* Milliseconds the clock advanced in the step.
Elapsed == (counter' + CounterModulus - counter) % CounterModulus

WriteEnds == lastOp'.op \in {"setInputLevel", "setInputLevel.storeRead"}

WriteStores == lastOp'.op \in {"setInputLevel", "setInputLevel.storeLevel"}

ReadBegins == lastOp'.op \in {"refreshMeterLevel", "refreshMeterLevel.storeRead"}

ReadEnds == lastOp'.op \in {"refreshMeterLevel", "refreshMeterLevel.loadLevel"}

NoWrites == [any |-> FALSE, clean |-> TRUE, max |-> 0, last |-> 0]

\* acc: the setInputLevel calls completed since the last getInputLevel began
\* (clean: no reset() wrote the slot after one of them); owed: the same, as
\* it stood when the getInputLevel in progress or just completed began;
\* inputRead: what the getInputLevel just completed returned.
TrackSlot ==
    slotHist' =
        [acc   |-> IF ReadBegins
                   THEN NoWrites
                   ELSE IF WriteEnds
                   THEN [any   |-> TRUE,
                         clean |-> slotHist.acc.clean,
                         max   |-> IF slotHist.acc.any
                                   THEN Max(slotHist.acc.max, lastOp'.arg)
                                   ELSE lastOp'.arg,
                         last  |-> lastOp'.arg]
                   ELSE IF lastOp'.op = "reset" /\ slotHist.acc.any
                   THEN [slotHist.acc EXCEPT !.clean = FALSE]
                   ELSE slotHist.acc,
         owed  |-> IF ReadBegins
                   THEN slotHist.acc
                   ELSE IF ReadEnds \/ consumer' # "idle" THEN slotHist.owed ELSE NoWrites,
         inputRead |-> IF ReadEnds THEN InputLevelOf(m_inputLevel, m_meterRange) ELSE R(0),
         setDone   |-> (slotHist.setDone \/ WriteEnds),
         getDone   |-> (slotHist.getDone \/ ReadEnds),
         loadAfterStore |-> IF ReadEnds
                            THEN TRUE
                            ELSE IF WriteStores THEN FALSE ELSE slotHist.loadAfterStore]

\* The step stored to the slot: a store of setInputLevel or reset().
SlotWritten == lastOp'.op \in {"setInputLevel", "setInputLevel.storeLevel", "reset", "clearMeters"}

\* The step began a setInputLevel call with this amplitude, if any.
WriteBegun ==
    IF lastOp'.op = "setInputLevel.loadRead" THEN {producer'.newLevel}
    ELSE IF lastOp'.op = "setInputLevel" THEN {lastOp'.arg}
    ELSE IF lastOp'.op = "clearMeters" THEN {0}
    ELSE {}

NoRead == [any |-> FALSE, amplitude |-> 0, value |-> R(0), range |-> Range(R(0), R(0))]

\* written: the amplitudes of the setInputLevel calls begun so far; last: the
\* amplitude the last getInputLevel loaded, the level it returned and the
\* range it clipped to, while no store to the slot has followed it; again:
\* the step completed a getInputLevel that found last; sameAmplitude, same,
\* sameRange: it then loaded the same amplitude, returned the same level,
\* clipped to the same range.
TrackValues ==
    LET read  == ReadEnds \/ (lastOp'.op = "clearMeters" /\ lastOp'.arg = 1)
        value == InputLevelOf(m_inputLevel', m_meterRange)
        again == ReadEnds /\ valueHist.last.any
    IN  valueHist' =
            [written |-> valueHist.written \cup WriteBegun,
             last    |-> IF read
                         THEN [any |-> TRUE, amplitude |-> m_inputLevel', value |-> value,
                               range |-> m_meterRange]
                         ELSE IF SlotWritten THEN NoRead ELSE valueHist.last,
             again   |-> again,
             sameAmplitude |-> (again => m_inputLevel' = valueHist.last.amplitude),
             sameRange     |-> (again => m_meterRange = valueHist.last.range),
             same          |-> (again => value = valueHist.last.value)]

\* hot: the last refreshMeterLevel left a level of 0 dB or more, and only
\* setInputLevel and drawMeter calls followed it; due: the step was a
\* refreshMeterLevel that found hot; quiet: resetClipInd has run, and no
\* refreshMeterLevel since has left a level of 0 dB or more.
TrackClip ==
    clipHist' =
        [hot   |-> IF lastOp'.op = "refreshMeterLevel"
                   THEN RLe(R(0), m_meterLevel_db')
                   ELSE IF lastOp'.op \in {"setInputLevel", "drawMeter"}
                   THEN clipHist.hot
                   ELSE FALSE,
         due   |-> (lastOp'.op = "refreshMeterLevel" /\ clipHist.hot),
         quiet |-> IF lastOp'.op = "resetClipInd"
                   THEN TRUE
                   ELSE IF lastOp'.op = "refreshMeterLevel" /\ RLe(R(0), m_meterLevel_db')
                   THEN FALSE
                   ELSE clipHist.quiet]

\* The step ran refreshMeterLevel to its end as a whole call.
Refreshed ==
    \/ lastOp'.op = "refreshMeterLevel"
    \/ lastOp'.op = "clearMeters" /\ lastOp'.arg = 1

PeakRaised ==
    /\ Refreshed
    /\ RLt(PeakHoldLevelOf(m_segments), PeakHoldLevelOf(m_segments'))

PeakExpired == lastOp'.op = "drawMeter" /\ lastOp'.arg = 1

\* on: a refreshMeterLevel raised the peak hold and nothing cleared it since;
\* age: the clock time since it was raised (counted up to peakDecayTime_ms);
\* cleared: the step was a drawMeter whose timed expiry cleared it;
\* fed: a refreshMeterLevel gave the segments a level since the peak hold was
\* last reset or the segments created; top: the highest such level.
TrackPeak ==
    peakHist' =
        [on      |-> IF PeakRaised
                     THEN TRUE
                     ELSE IF PeakExpired \/ lastOp'.op \in {"resetPeakHold", "setMeterSegments"}
                     THEN FALSE
                     ELSE peakHist.on,
         age     |-> IF PeakRaised \/ ~peakHist.on
                     THEN 0
                     ELSE Min(peakHist.age + Elapsed, m_meterOptions.peakDecayTime_ms),
         cleared |-> (PeakExpired /\ peakHist.on /\ ~PeakRaised),
         fed     |-> IF Refreshed
                     THEN TRUE
                     ELSE IF PeakExpired \/ lastOp'.op \in {"resetPeakHold", "setMeterSegments"}
                     THEN FALSE
                     ELSE peakHist.fed,
         top     |-> IF Refreshed
                     THEN IF peakHist.fed
                          THEN RMax(peakHist.top, m_meterLevel_db')
                          ELSE m_meterLevel_db'
                     ELSE IF PeakExpired \/ lastOp'.op \in {"resetPeakHold", "setMeterSegments"}
                     THEN R(0)
                     ELSE peakHist.top]

\* The clock is monotonic for the refresh of this step: its int sample is
\* the previous refresh's sample plus the time that passed since.
MonotonicSample(since) ==
    ToInt(counter') = m_previousRefreshTime + since

DecayStateChanged ==
    << m_meterLevel_db, m_decayRate, m_meterRange, m_previousRefreshTime >>' #
    << m_meterLevel_db, m_decayRate, m_meterRange, m_previousRefreshTime >>

NoRun == [on |-> FALSE, start |-> R(0), input |-> R(0), total |-> 0, n |-> 0]

\* The decay run after a refresh that read input_db, since milliseconds
\* after the previous refresh: the run goes on while the input stays what it
\* was, below the level the run started from, and the clock is monotonic;
\* else a new run starts from the level this refresh leaves.
RunAfterRefresh(run, input_db, since) ==
    IF /\ run.on
       /\ MonotonicSample(since)
       /\ IF run.n = 0 THEN RLt(input_db, run.start) ELSE input_db = run.input
    THEN [run EXCEPT !.input = input_db, !.total = @ + since, !.n = Min(@ + 1, 2)]
    ELSE [on |-> TRUE, start |-> m_meterLevel_db', input |-> R(0), total |-> 0, n |-> 0]

\* refreshed: refreshMeterLevel has run; since: clock time since it last ran;
\* elapsed: the clock time between the refresh of this step and the one
\* before; rose: the refresh of this step raised the level; run: the decay
\* run in progress; wrapped: the counter has gone past its modulus, so a
\* reading of it was below the reading before.
TrackDecay ==
    decayHist' =
        IF lastOp'.op = "refreshMeterLevel"
        THEN [refreshed |-> TRUE,
              since     |-> 0,
              elapsed   |-> decayHist.since + Elapsed,
              rose      |-> RLt(m_meterLevel_db, m_meterLevel_db'),
              run       |-> RunAfterRefresh(decayHist.run,
                                            InputLevelOf(m_inputLevel, m_meterRange),
                                            decayHist.since + Elapsed),
              wrapped   |-> (decayHist.wrapped \/ counter' < counter)]
        ELSE [refreshed |-> decayHist.refreshed,
              since     |-> IF decayHist.refreshed THEN decayHist.since + Elapsed ELSE 0,
              elapsed   |-> 0,
              rose      |-> FALSE,
              run       |-> IF DecayStateChanged THEN NoRun ELSE decayHist.run,
              wrapped   |-> (decayHist.wrapped \/ counter' < counter)]

(***************************************************************************)
(* The state after Level::Level().                                         *)
(***************************************************************************)
\* m_meterRange before the constructor body runs.
InitialMeterRanges ==
    { Range(R(kMaxLevel_db), R(kMinLevel_db)), Range(R(kMinLevel_db), R(kMaxLevel_db)) }

\* The slot of a channel after construction.
EmptySlot == [m_inputLevel |-> 0, m_inputLevelRead |-> FALSE]

InitWith(range0, counter0) ==
    /\ m_inputLevel = 0
    /\ m_inputLevelRead = FALSE
    /\ m_meterLevel_db = R(kMinLevel_db)
    /\ m_meterOptions = ClampedOptions(DefaultOptions)
    /\ m_segments = SegmentsFor(getDefaultScale, DefaultOptions, EmptyRect, FALSE)
    /\ m_meterRange = MeterRangeWith(range0, getDefaultScale)
    /\ m_decayRate = DecayRateOf(MeterRangeWith(range0, getDefaultScale),
                                 ClampedOptions(DefaultOptions))
    /\ m_refreshPeriod_ms = RefreshPeriodOf(ClampedOptions(DefaultOptions))
    /\ m_previousRefreshTime = 0
    /\ m_previousPeakHoldTime = 0
    /\ m_totalPeakHoldTimePassed = 0
    /\ m_clip = FALSE
    /\ m_clipDirty = FALSE
    /\ m_peakHoldDirty = TRUE
    /\ m_isLabelStrip = FALSE
    /\ m_meterBounds = EmptyRect
    /\ m_levelBounds = EmptyRect
    /\ m_valueBounds = EmptyRect
    /\ m_clipIndBounds = EmptyRect
    /\ m_active = TRUE
    /\ otherChannels = [i \in 1 .. NumChannels - 1 |-> EmptySlot]
    /\ producer = ProducerIdle
    /\ consumer = "idle"
    /\ counter = counter0
    /\ lastOp = Call("Level")
    /\ count = [steps |-> 0, writes |-> 0, reads |-> 0]
    /\ slotHist = [acc |-> NoWrites, owed |-> NoWrites, inputRead |-> R(0),
                   setDone |-> FALSE, getDone |-> FALSE, loadAfterStore |-> FALSE]
    /\ clipHist = [hot |-> FALSE, due |-> FALSE, quiet |-> FALSE]
    /\ decayHist = [refreshed |-> FALSE, since |-> 0, elapsed |-> 0, rose |-> FALSE,
                    run |-> NoRun, wrapped |-> FALSE]
    /\ peakHist = [on |-> FALSE, age |-> 0, cleared |-> FALSE, fed |-> FALSE, top |-> R(0)]
    /\ valueHist = [written |-> {}, last |-> NoRead, again |-> FALSE,
                    sameAmplitude |-> TRUE, sameRange |-> TRUE, same |-> TRUE]

(***************************************************************************)
(* SpecSlot: the single-slot exchange, one atomic load or store per step,  *)
(* under every interleaving of one producer and one consumer.              *)
(***************************************************************************)
\* Amplitudes the producer writes: -40 dB and 0 dB.
SlotAmplitudes == {10000, 1000000}

SlotClockSteps == {0, 250}

InitSlot == \E range0 \in InitialMeterRanges : InitWith(range0, 0)

TrackedSlot == TrackSlot /\ TrackValues /\ UNCHANGED << clipHist, decayHist, peakHist >>

NextSlot ==
    \/ \E newLevel \in SlotAmplitudes :
         /\ count.writes < MaxWrites
         /\ Producer_loadRead(newLevel)
         /\ count' = [count EXCEPT !.writes = @ + 1]
         /\ TrackedSlot
    \/ Producer_loadLevel /\ UNCHANGED count /\ TrackedSlot
    \/ Producer_storeLevel /\ UNCHANGED count /\ TrackedSlot
    \/ Producer_storeRead /\ UNCHANGED count /\ TrackedSlot
    \/ /\ count.reads < MaxReads
       /\ Refresh_storeRead
       /\ count' = [count EXCEPT !.reads = @ + 1]
       /\ TrackedSlot
    \/ \E dt \in SlotClockSteps : Refresh_loadLevel(dt) /\ UNCHANGED count /\ TrackedSlot

SpecSlot == InitSlot /\ [][NextSlot]_vars

\* The same with reset() calls of the refresh thread between its refreshes,
\* at any point of a setInputLevel in progress.
NextSlotReset ==
    \/ NextSlot
    \/ /\ count.steps < MaxResets
       /\ reset
       /\ count' = [count EXCEPT !.steps = @ + 1]
       /\ TrackedSlot

SpecSlotReset == InitSlot /\ [][NextSlotReset]_vars

(***************************************************************************)
(* Inputs of the sequential specifications.                                *)
(***************************************************************************)
\* Amplitudes written: silence, -40 dB, 0 dB.
Amplitudes == {0, 10000, 1000000}

\* The counter when the meter is constructed: just started, about to leave
\* the range of int, and in the upper half of its range (where
\* static_cast<int> of it is negative).
ClockStarts == {0, IntMax - 499, CounterModulus - 500}

ClockSteps == {0, 250, 1000}

\* A scale that reaches below kMinLevel_db.
LowScale == << SegOpt(R(-120), R(0), R(0), R(1)) >>

SegmentLists == { << >>, LowScale }

DecayTimes == {50, 5000}

RefreshRates == {0, 60}

OptionChoices ==
    { [DefaultOptions EXCEPT !.valueEnabled = TRUE, !.showClipIndicator = FALSE,
                             !.showPeakHoldIndicator = FALSE, !.decayTime_ms = 2000,
                             !.peakDecayTime_ms = 500, !.tickMarks = << R(-3) >>] }

BoundsChoices == { [x |-> 0, y |-> R(0), w |-> 20, h |-> R(237)] }

(***************************************************************************)
(* Spec: every operation of Level as a whole call, in any order.           *)
(***************************************************************************)
Init == \E range0 \in InitialMeterRanges : InitWith(range0, 0)

Tracked ==
    /\ count.steps < MaxCalls
    /\ count' = [count EXCEPT !.steps = @ + 1]
    /\ TrackSlot
    /\ UNCHANGED << clipHist, decayHist, peakHist, valueHist >>

Next ==
    \/ \E newLevel \in Amplitudes : setInputLevel(newLevel) /\ Tracked
    \/ \E dt \in ClockSteps : refreshMeterLevel(dt) /\ Tracked
    \/ \E dt \in ClockSteps : drawMeter(dt) /\ Tracked
    \/ reset /\ Tracked
    \/ resetPeakHold /\ Tracked
    \/ resetClipInd /\ Tracked
    \/ \E meterOptions \in OptionChoices : setMeterOptions(meterOptions) /\ Tracked
    \/ \E decay_ms \in DecayTimes : setDecay(decay_ms) /\ Tracked
    \/ \E refreshRate_hz \in RefreshRates : setRefreshRate(refreshRate_hz) /\ Tracked
    \/ \E segmentsOptions \in SegmentLists : setMeterSegments(segmentsOptions) /\ Tracked
    \/ \E isLabelStrip \in BOOLEAN : setIsLabelStrip(isLabelStrip) /\ Tracked
    \/ \E bounds \in BoundsChoices : setMeterBounds(bounds) /\ Tracked
    \/ getDirtyBounds /\ Tracked

Spec == Init /\ [][Next]_vars

(***************************************************************************)
(* SpecDecay: the operations that bear on the displayed level, from every  *)
(* starting value of the counter.                                          *)
(***************************************************************************)
InitDecay ==
    \E range0 \in InitialMeterRanges, counter0 \in ClockStarts : InitWith(range0, counter0)

TrackedDecay ==
    /\ count.steps < MaxSteps
    /\ count' = [count EXCEPT !.steps = @ + 1]
    /\ TrackDecay
    /\ UNCHANGED << slotHist, clipHist, peakHist, valueHist >>

NextDecay ==
    \/ \E newLevel \in Amplitudes : setInputLevel(newLevel) /\ TrackedDecay
    \/ \E dt \in ClockSteps : refreshMeterLevel(dt) /\ TrackedDecay
    \/ reset /\ TrackedDecay
    \/ \E decay_ms \in DecayTimes : setDecay(decay_ms) /\ TrackedDecay
    \/ setMeterSegments(LowScale) /\ TrackedDecay

SpecDecay == InitDecay /\ [][NextDecay]_vars

(***************************************************************************)
(* SpecPeak: the operations that bear on the peak hold and the clip latch. *)
(***************************************************************************)
InitPeak ==
    \E range0 \in InitialMeterRanges, counter0 \in ClockStarts : InitWith(range0, counter0)

TrackedPeak ==
    /\ count.steps < MaxSteps
    /\ count' = [count EXCEPT !.steps = @ + 1]
    /\ TrackClip
    /\ TrackPeak
    /\ UNCHANGED << slotHist, decayHist, valueHist >>

NextPeak ==
    \/ \E newLevel \in Amplitudes : setInputLevel(newLevel) /\ TrackedPeak
    \/ \E dt \in ClockSteps : refreshMeterLevel(dt) /\ TrackedPeak
    \/ \E dt \in ClockSteps : drawMeter(dt) /\ TrackedPeak
    \/ resetPeakHold /\ TrackedPeak
    \/ resetClipInd /\ TrackedPeak
    \/ \E bounds \in BoundsChoices : setMeterBounds(bounds) /\ TrackedPeak

SpecPeak == InitPeak /\ [][NextPeak]_vars

(***************************************************************************)
(* SpecSegments: the operations that move the segments' fill and marker,   *)
(* with a decay time that brings the level to every segment of the scale.  *)
(***************************************************************************)
MaxSegmentSteps == 7

\* Amplitudes written: -40 dB, 0 dB.
SegmentAmplitudes == {10000, 1000000}

SegmentClockSteps == {250, 1000}

\* With the default scale, 10 dB of decay per 250 ms.
TilingDecayTimes == {1500}

InitSegments == \E range0 \in InitialMeterRanges : InitWith(range0, 0)

TrackedSegments ==
    /\ count.steps < MaxSegmentSteps
    /\ count' = [count EXCEPT !.steps = @ + 1]
    /\ UNCHANGED << slotHist, clipHist, decayHist, peakHist, valueHist >>

NextSegments ==
    \/ \E newLevel \in SegmentAmplitudes : setInputLevel(newLevel) /\ TrackedSegments
    \/ \E dt \in SegmentClockSteps : refreshMeterLevel(dt) /\ TrackedSegments
    \/ \E dt \in SegmentClockSteps : drawMeter(dt) /\ TrackedSegments
    \/ resetPeakHold /\ TrackedSegments
    \/ \E decay_ms \in TilingDecayTimes : setDecay(decay_ms) /\ TrackedSegments
    \/ \E bounds \in BoundsChoices : setMeterBounds(bounds) /\ TrackedSegments

SpecSegments == InitSegments /\ [][NextSegments]_vars

(***************************************************************************)
(* SpecOptions: the operations that change the options and the scale.      *)
(***************************************************************************)
MaxOptionCalls == 5

\* Lists given to setMeterSegments: none, the default scale, a scale that
\* reaches below it.
ScaleLists == { << >>, getDefaultScale, LowScale }

\* Decay times below, within and above [kMinDecay_ms, kMaxDecay_ms].
OptionDecayTimes == {50, 2000, 5000}

\* Options within the limits, and options outside them at both ends whose
\* tick marks fall on the ends of the default segments.
WideOptionChoices ==
    OptionChoices \cup
    { [DefaultOptions EXCEPT !.decayTime_ms = 50000, !.refreshRate = 0,
                             !.tickMarks = << R(-18), R(-3), R(0) >>] }

InitOptions == \E range0 \in InitialMeterRanges : InitWith(range0, 0)

TrackedOptions ==
    /\ count.steps < MaxOptionCalls
    /\ count' = [count EXCEPT !.steps = @ + 1]
    /\ UNCHANGED << slotHist, clipHist, decayHist, peakHist, valueHist >>

NextOptions ==
    \/ \E meterOptions \in WideOptionChoices : setMeterOptions(meterOptions) /\ TrackedOptions
    \/ \E decay_ms \in OptionDecayTimes : setDecay(decay_ms) /\ TrackedOptions
    \/ \E refreshRate_hz \in RefreshRates : setRefreshRate(refreshRate_hz) /\ TrackedOptions
    \/ \E segmentsOptions \in ScaleLists : setMeterSegments(segmentsOptions) /\ TrackedOptions
    \/ \E isLabelStrip \in BOOLEAN : setIsLabelStrip(isLabelStrip) /\ TrackedOptions
    \/ \E bounds \in BoundsChoices : setMeterBounds(bounds) /\ TrackedOptions

SpecOptions == InitOptions /\ [][NextOptions]_vars

(***************************************************************************)
(* SpecChannel: the calls of MeterChannel and MetersComponent that reach   *)
(* the Level of a channel.                                                 *)
(***************************************************************************)
MaxChannelSteps == 6

ChannelClockSteps == {0, 250}

\* Indices given to MetersComponent::setInputLevel: below, within and above
\* the channels.
ChannelIndices == -1 .. NumChannels

InitChannel == \E range0 \in InitialMeterRanges : InitWith(range0, 0)

TrackedChannel ==
    /\ count.steps < MaxChannelSteps
    /\ count' = [count EXCEPT !.steps = @ + 1]
    /\ UNCHANGED << slotHist, clipHist, decayHist, peakHist, valueHist >>

NextChannel ==
    \/ \E newLevel \in SlotAmplitudes : setInputLevel(newLevel) /\ TrackedChannel
    \/ \E channel \in ChannelIndices, value \in SlotAmplitudes :
         MetersComponent_setInputLevel(channel, value) /\ TrackedChannel
    \/ \E dt \in ChannelClockSteps, showing \in BOOLEAN :
         MeterChannel_refresh(dt, showing) /\ TrackedChannel
    \/ \E isActive \in BOOLEAN : setActive(isActive) /\ TrackedChannel
    \/ \E bounds \in BoundsChoices : setMeterBounds(bounds) /\ TrackedChannel

SpecChannel == InitChannel /\ [][NextChannel]_vars

(***************************************************************************)
(* SpecScale: amplitudes and scales at and beyond the limits, and          *)
(* clearMeters.                                                            *)
(***************************************************************************)
MaxScaleSteps == 4

\* Amplitudes written: -1.0, silence, -40 dB, +20 dB.
ScaleAmplitudes == {-1000000, 0, 10000, 10000000}

ScaleClockSteps == {0, 250}

\* A segment whose meter range reaches beyond [0, 1].
InvalidScale == << SegOpt(R(-60), R(0), R(0), R(2)) >>

ScaleChoices == { LowScale, InvalidScale }

InitScale == \E range0 \in InitialMeterRanges : InitWith(range0, 0)

TrackedScale ==
    /\ count.steps < MaxScaleSteps
    /\ count' = [count EXCEPT !.steps = @ + 1]
    /\ TrackSlot
    /\ TrackPeak
    /\ TrackValues
    /\ UNCHANGED << clipHist, decayHist >>

NextScale ==
    \/ \E newLevel \in ScaleAmplitudes : setInputLevel(newLevel) /\ TrackedScale
    \/ \E dt \in ScaleClockSteps : refreshMeterLevel(dt) /\ TrackedScale
    \/ \E segmentsOptions \in ScaleChoices : setMeterSegments(segmentsOptions) /\ TrackedScale
    \/ resetPeakHold /\ TrackedScale
    \/ reset /\ TrackedScale
    \/ \E dt \in ScaleClockSteps, showing \in BOOLEAN : clearMeters(dt, showing) /\ TrackedScale
    \/ \E bounds \in BoundsChoices : setMeterBounds(bounds) /\ TrackedScale

SpecScale == InitScale /\ [][NextScale]_vars

(***************************************************************************)
(* The exchange of the amplitude (SpecSlot, Spec).                         *)
(***************************************************************************)
\* C1 (SpecSlot): under every interleaving of the atomic steps, the first
\* getInputLevel that begins after a setInputLevel(a) has completed returns
\* at least the clamped decibel value of a.  Stated on the state a
\* getInputLevel leaves, for the largest amplitude of the calls completed
\* before it began and after the previous getInputLevel began.
C1_NoPeakMissed ==
    lastOp.op = "refreshMeterLevel.loadLevel" /\ slotHist.owed.any
        => RLe(InputLevelOf(slotHist.owed.max, m_meterRange), slotHist.inputRead)

\* C2 (Spec): with whole calls, after setInputLevel(a1), ..., setInputLevel(an)
\* and no getInputLevel in between, the next getInputLevel returns the
\* clamped decibel value of the largest amplitude written since the previous
\* read.
C2_LargestSinceRead ==
    lastOp.op = "refreshMeterLevel" /\ slotHist.owed.any /\ slotHist.owed.clean
        => slotHist.inputRead = InputLevelOf(slotHist.owed.max, m_meterRange)

\* A read that returned the largest amplitude where the latest one was lower.
C2_Witness ==
    /\ lastOp.op = "refreshMeterLevel"
    /\ slotHist.owed.any
    /\ slotHist.owed.clean
    /\ slotHist.owed.last < slotHist.owed.max
    /\ slotHist.inputRead = InputLevelOf(slotHist.owed.max, m_meterRange)
    /\ slotHist.inputRead # InputLevelOf(slotHist.owed.last, m_meterRange)

\* C3 (SpecSlot): under every interleaving, once a setInputLevel and a
\* getInputLevel have completed, no call is in progress, and the consumer's
\* load of the amplitude came after the producer's latest store of it, the
\* consumed flag m_inputLevelRead is true.
C3_ConsumedFlagSet ==
    /\ producer.pc = "idle"
    /\ consumer = "idle"
    /\ slotHist.setDone
    /\ slotHist.getDone
    /\ slotHist.loadAfterStore
    => m_inputLevelRead

(***************************************************************************)
(* The clip latch (Spec, SpecPeak).                                        *)
(***************************************************************************)
\* C4 (Spec): once the clip latch is true, every operation but resetClipInd
\* leaves it true.
C4_ClipLatchSticky == [][m_clip /\ lastOp'.op # "resetClipInd" => m_clip']_vars

\* The latch still set after reset() took the level down to the minimum.
C4_Witness == m_clip /\ lastOp.op = "reset" /\ m_meterLevel_db = R(kMinLevel_db)

\* C5 (SpecPeak): when a refreshMeterLevel leaves a level of 0 dB or more and
\* only setInputLevel and drawMeter calls follow it, the clip latch is true
\* at the end of the next refreshMeterLevel.
C5_ClipLatchedByNextRefresh ==
    lastOp.op = "refreshMeterLevel" /\ clipHist.due => m_clip

(***************************************************************************)
(* The decay of the displayed level (SpecDecay).                           *)
(***************************************************************************)
\* C6 (SpecDecay): a refreshMeterLevel that reads an input below the
\* displayed level leaves the level lowered by decayRate times the time
\* elapsed since the previous refresh, but not below the input.
C6_MonotonicDecay ==
    [][ /\ lastOp'.op = "refreshMeterLevel"
        /\ decayHist.refreshed
        /\ RLt(InputLevelOf(m_inputLevel, m_meterRange), m_meterLevel_db)
        => m_meterLevel_db' =
               RMax(InputLevelOf(m_inputLevel, m_meterRange),
                    RSub(m_meterLevel_db, RMul(R(decayHist'.elapsed), m_decayRate))) ]_vars

\* C7 (SpecDecay): a refreshMeterLevel that reads an input greater than or
\* equal to the displayed level leaves the displayed level equal to that
\* input, whatever the elapsed time.
C7_InstantAttack ==
    [][ /\ lastOp'.op = "refreshMeterLevel"
        /\ RLe(m_meterLevel_db, InputLevelOf(m_inputLevel, m_meterRange))
        => m_meterLevel_db' = InputLevelOf(m_inputLevel, m_meterRange) ]_vars

\* A refresh, some time after the one before, that raised the level to the
\* input.
C7_Witness ==
    /\ lastOp.op = "refreshMeterLevel"
    /\ decayHist.rose
    /\ decayHist.elapsed > 0
    /\ m_meterLevel_db = InputLevelOf(m_inputLevel, m_meterRange)

\* C8 (SpecDecay): a refreshMeterLevel whose clock sample is not later than
\* the previous sample treats the elapsed time as zero: it leaves the
\* larger of the displayed level and the input.
C8_AnomalyAsZero ==
    [][ /\ lastOp'.op = "refreshMeterLevel"
        /\ ToInt(counter') <= m_previousRefreshTime
        => m_meterLevel_db' =
               RMax(m_meterLevel_db, InputLevelOf(m_inputLevel, m_meterRange)) ]_vars

\* C9 (SpecDecay): with a monotonic clock and a fixed input below the level a
\* run of refreshes started from, the level after the run is
\* max(input, start - decayRate * T) for the total time T of the run,
\* however the refreshes split T.
C9_DecayIndependentOfSplit ==
    decayHist.run.on /\ decayHist.run.n >= 1
        => m_meterLevel_db =
               RMax(decayHist.run.input,
                    RSub(decayHist.run.start, RMul(R(decayHist.run.total), m_decayRate)))

\* Two refreshes into a run, the level still between the input and the start.
C9_Witness ==
    /\ decayHist.run.on
    /\ decayHist.run.n >= 2
    /\ RLt(decayHist.run.input, m_meterLevel_db)
    /\ RLt(m_meterLevel_db, decayHist.run.start)

(***************************************************************************)
(* The peak hold (SpecPeak).                                               *)
(***************************************************************************)
\* C10 (SpecPeak): the timed expiry of drawMeter clears a peak hold raised by
\* a refresh only when peakDecayTime_ms of clock time have passed since the
\* refresh that raised it.
C10_PeakHoldLastsFullTime ==
    peakHist.cleared => peakHist.age >= m_meterOptions.peakDecayTime_ms

\* C11 (Spec): a drawMeter that finds the accumulated time short of
\* peakDecayTime_ms leaves every segment's peak hold as it was; one that finds
\* it reached zeroes the accumulator and resets every segment's peak hold,
\* and getPeakHoldLevel then reports the start of the aggregate scale range.
C11_PeakHoldTimeout ==
    [][ lastOp'.op = "drawMeter"
        => IF lastOp'.arg = 1
           THEN /\ m_totalPeakHoldTimePassed' = 0
                /\ \A i \in DOMAIN m_segments' :
                     m_segments'[i].peakHoldLevel_db = m_meterRange'.start
                /\ PeakHoldLevelOf(m_segments') = m_meterRange'.start
           ELSE /\ m_totalPeakHoldTimePassed' < m_meterOptions.peakDecayTime_ms
                /\ \A i \in DOMAIN m_segments :
                     m_segments'[i].peakHoldLevel_db = m_segments[i].peakHoldLevel_db ]_vars

\* C12 (Spec): every operation but resetPeakHold, a drawMeter whose timed
\* expiry runs, and setMeterSegments (which creates the segments anew) leaves
\* each segment's peak-hold level at least what it was.
C12_PeakHoldMonotonic ==
    [][ /\ lastOp'.op \notin {"resetPeakHold", "setMeterSegments"}
        /\ ~(lastOp'.op = "drawMeter" /\ lastOp'.arg = 1)
        => /\ DOMAIN m_segments' = DOMAIN m_segments
           /\ \A i \in DOMAIN m_segments :
                RLe(m_segments[i].peakHoldLevel_db, m_segments'[i].peakHoldLevel_db) ]_vars

\* A refresh that lowered the level and left the peak hold above it.
C12_Witness ==
    /\ lastOp.op = "refreshMeterLevel"
    /\ m_segments # << >>
    /\ \A i \in DOMAIN m_segments :
         /\ m_segments[i].currentLevel_db = m_meterLevel_db
         /\ m_segments[i].peakHoldLevel_db = R(0)
         /\ RLt(m_meterLevel_db, R(0))

(***************************************************************************)
(* reset (Spec).                                                           *)
(***************************************************************************)
\* C20 (Spec): reset() as a whole call leaves the stored amplitude 0 and the
\* displayed level kMinLevel_db, and leaves the segments (their peak-hold
\* levels with them) and the clip latch as they were.
C20_ResetFrame ==
    [][ lastOp'.op = "reset"
        => /\ m_inputLevel' = 0
           /\ m_meterLevel_db' = R(kMinLevel_db)
           /\ DOMAIN m_segments' = DOMAIN m_segments
           /\ \A i \in DOMAIN m_segments :
                m_segments'[i].peakHoldLevel_db = m_segments[i].peakHoldLevel_db
           /\ m_clip' = m_clip ]_vars

\* reset() has just run on a meter that held a 0 dB peak and a set latch.
C20_Witness ==
    /\ lastOp.op = "reset"
    /\ m_inputLevel = 0
    /\ m_meterLevel_db = R(kMinLevel_db)
    /\ m_clip
    /\ m_segments # << >>
    /\ \A i \in DOMAIN m_segments : m_segments[i].peakHoldLevel_db = R(0)

(***************************************************************************)
(* The segments (SpecSegments).                                            *)
(***************************************************************************)
\* The height of the filled part of a segment over the height of the segment.
FillFraction(seg) == RDiv(seg.drawnBounds.h, seg.segmentBounds.h)

\* C13 (SpecSegments): every segment with non-empty bounds is filled by
\* clamp((level - range.start) / range.length, 0, 1) of its height, for the
\* level it was last given, which after a refresh is the displayed level.
C13_SegmentTiling ==
    \A i \in DOMAIN m_segments :
        LET seg   == m_segments[i]
            range == seg.segmentOptions.levelRange
        IN  /\ lastOp.op = "refreshMeterLevel" => seg.currentLevel_db = m_meterLevel_db
            /\ ~IsEmpty(seg.segmentBounds)
               => FillFraction(seg) =
                    RClamp(RDiv(RSub(seg.currentLevel_db, range.start), RangeLength(range)),
                           R(0), R(1))

\* The default scale at a level of -10 dB: the first segment is full, the
\* second filled by 8/15, the third empty.
C13_Witness ==
    /\ lastOp.op = "refreshMeterLevel"
    /\ m_meterLevel_db = R(-10)
    /\ Len(m_segments) = 3
    /\ \A i \in DOMAIN m_segments :
         /\ ~IsEmpty(m_segments[i].segmentBounds)
         /\ m_segments[i].segmentOptions = getDefaultScale[i]
    /\ FillFraction(m_segments[1]) = R(1)
    /\ FillFraction(m_segments[2]) = Rat(8, 15)
    /\ FillFraction(m_segments[3]) = R(0)

\* C14 (SpecSegments): a segment whose peak-hold marker is not empty has
\* the held peak within its own level range, start <= peak < end.
C14_PeakHoldContainment ==
    \A i \in DOMAIN m_segments :
        LET seg   == m_segments[i]
            range == seg.segmentOptions.levelRange
        IN  ~IsEmpty(seg.peakHoldBounds)
            => RLe(range.start, seg.peakHoldLevel_db) /\ RLt(seg.peakHoldLevel_db, range.end)

\* C15 (SpecSegments): every segment's level range has positive length, its
\* meter range has positive length within [0, 1], and its peak-hold level is
\* at least the start of its level range.
C15_SegmentInvariants ==
    \A i \in DOMAIN m_segments :
        LET seg == m_segments[i]
        IN  /\ RLt(seg.segmentOptions.levelRange.start, seg.segmentOptions.levelRange.end)
            /\ RLe(R(0), seg.segmentOptions.meterRange.start)
            /\ RLt(seg.segmentOptions.meterRange.start, seg.segmentOptions.meterRange.end)
            /\ RLe(seg.segmentOptions.meterRange.end, R(1))
            /\ RLe(seg.segmentOptions.levelRange.start, seg.peakHoldLevel_db)

(***************************************************************************)
(* The options and the scale (SpecOptions).                                *)
(***************************************************************************)
\* The smallest range that holds the level ranges of a non-empty list of
\* segments.
ScaleUnion(segs) ==
    LET starts == { segs[i].segmentOptions.levelRange.start : i \in DOMAIN segs }
        ends   == { segs[i].segmentOptions.levelRange.end : i \in DOMAIN segs }
    IN  [start |-> CHOOSE lo \in starts : \A v \in starts : RLe(lo, v),
         end   |-> CHOOSE hi \in ends : \A v \in ends : RLe(v, hi)]

\* C16 (SpecOptions): right after setMeterSegments with a non-empty list the
\* aggregate scale range is [least start, greatest end] of that list's level
\* ranges, whatever lists were set before.
C16_ScaleUnion ==
    lastOp.op = "setMeterSegments" /\ m_segments # << >>
    => m_meterRange = ScaleUnion(m_segments)

\* C17 (SpecOptions): the decay rate is the length of the aggregate scale
\* range over the stored decay time.
C17_DecayRateFresh ==
    m_decayRate = RDiv(RangeLength(m_meterRange), R(m_meterOptions.decayTime_ms))

\* setDecay(2000) has just run: the rate is half the rate of a decay time of
\* 1000 ms over the same scale range.
C17_Witness ==
    /\ lastOp.op = "setDecay"
    /\ m_meterOptions.decayTime_ms = 2000
    /\ RMul(R(2), m_decayRate) = RDiv(RangeLength(m_meterRange), R(1000))
    /\ RLt(R(0), m_decayRate)

\* C18 (SpecOptions): the stored decay time is within
\* [kMinDecay_ms, kMaxDecay_ms] and the stored refresh rate is at least 1.
C18_OptionsClamped ==
    /\ kMinDecay_ms <= m_meterOptions.decayTime_ms
    /\ m_meterOptions.decayTime_ms <= kMaxDecay_ms
    /\ m_meterOptions.refreshRate >= 1

\* A decay time of 50 ms was asked for after a refresh rate of 0 Hz: the
\* stored values are the limits.
C18_Witness ==
    /\ lastOp.op = "setDecay"
    /\ m_meterOptions.decayTime_ms = kMinDecay_ms
    /\ m_meterOptions.refreshRate = 1

C21_ResetPeakHoldFrame ==
    [][ lastOp'.op = "resetPeakHold"
        => /\ DOMAIN m_segments' = DOMAIN m_segments
           /\ \A i \in DOMAIN m_segments' :
                m_segments'[i].peakHoldLevel_db = R(kMinLevel_db)
           /\ m_meterLevel_db' = m_meterLevel_db
           /\ m_inputLevel' = m_inputLevel
           /\ m_inputLevelRead' = m_inputLevelRead
           /\ m_clip' = m_clip ]_vars

\* resetPeakHold() has just run on a meter showing 0 dB with the latch set
\* and an amplitude in the slot.
C21_Witness ==
    /\ lastOp.op = "resetPeakHold"
    /\ m_segments # << >>
    /\ \A i \in DOMAIN m_segments : m_segments[i].peakHoldLevel_db = R(kMinLevel_db)
    /\ m_meterLevel_db = R(0)
    /\ m_inputLevel = 1000000
    /\ m_inputLevelRead
    /\ m_clip

\* C22 (Spec): resetClipInd() leaves the clip latch false, and the displayed
\* level, every segment's peak-hold level, the stored amplitude and the
\* consumed flag as they were.
C22_ResetClipIndFrame ==
    [][ lastOp'.op = "resetClipInd"
        => /\ ~m_clip'
           /\ m_meterLevel_db' = m_meterLevel_db
           /\ DOMAIN m_segments' = DOMAIN m_segments
           /\ \A i \in DOMAIN m_segments :
                m_segments'[i].peakHoldLevel_db = m_segments[i].peakHoldLevel_db
           /\ m_inputLevel' = m_inputLevel
           /\ m_inputLevelRead' = m_inputLevelRead ]_vars

\* resetClipInd() has just run on a meter showing 0 dB and holding a 0 dB
\* peak: the latch is down and marked for redrawing.
C22_Witness ==
    /\ lastOp.op = "resetClipInd"
    /\ ~m_clip
    /\ m_clipDirty
    /\ m_segments # << >>
    /\ \A i \in DOMAIN m_segments : m_segments[i].peakHoldLevel_db = R(0)
    /\ m_meterLevel_db = R(0)
    /\ m_inputLevel = 1000000

(***************************************************************************)
(* What an option change leaves alone (Spec).                              *)
(***************************************************************************)
\* C28 (Spec): setMeterOptions, setDecay and setRefreshRate leave every
\* segment's level range, meter range, bounds, current level, fill extent
\* and peak-hold level, and the engine's displayed level and aggregate scale
\* range, as they were.
C28_OptionsKeepGeometry ==
    [][ lastOp'.op \in {"setMeterOptions", "setDecay", "setRefreshRate"}
        => /\ DOMAIN m_segments' = DOMAIN m_segments
           /\ \A i \in DOMAIN m_segments :
                /\ m_segments'[i].segmentOptions = m_segments[i].segmentOptions
                /\ m_segments'[i].segmentBounds = m_segments[i].segmentBounds
                /\ m_segments'[i].currentLevel_db = m_segments[i].currentLevel_db
                /\ m_segments'[i].drawnBounds = m_segments[i].drawnBounds
                /\ m_segments'[i].peakHoldLevel_db = m_segments[i].peakHoldLevel_db
           /\ m_meterLevel_db' = m_meterLevel_db
           /\ m_meterRange' = m_meterRange ]_vars

\* setDecay has just run on a sized meter whose three segments are filled
\* by a level of 0 dB.
C28_Witness ==
    /\ lastOp.op = "setDecay"
    /\ m_meterLevel_db = R(0)
    /\ Len(m_segments) = 3
    /\ \A i \in DOMAIN m_segments :
         /\ ~IsEmpty(m_segments[i].drawnBounds)
         /\ m_segments[i].drawnBounds = m_segments[i].segmentBounds
         /\ m_segments[i].currentLevel_db = R(0)
         /\ m_segments[i].peakHoldLevel_db = R(0)

(***************************************************************************)
(* The producer against the consumer's state (SpecSlot, SpecSlotLive).     *)
(***************************************************************************)
ProducerSteps ==
    {"setInputLevel", "setInputLevel.loadRead", "setInputLevel.loadLevel",
     "setInputLevel.storeLevel", "setInputLevel.storeRead"}

\* C26 (SpecSlot): every step of setInputLevel leaves the displayed level,
\* the decay rate, the clip latch, the timestamps, the scale range, the
\* options and every segment as they were.
C26_ProducerTouchesSlotOnly ==
    [][ lastOp'.op \in ProducerSteps
        => UNCHANGED << levelVars, optionVars, clipVars, peakTimeVars, m_segments,
                        m_meterRange, m_peakHoldDirty, m_isLabelStrip, componentVars,
                        consumer >> ]_vars

\* The producer has just stored an amplitude in the middle of a refresh,
\* after an earlier refresh put 0 dB on display.
C26_Witness ==
    /\ lastOp.op = "setInputLevel.storeLevel"
    /\ consumer = "getInputLevel"
    /\ m_meterLevel_db = R(0)
    /\ m_segments # << >>
    /\ \A i \in DOMAIN m_segments : m_segments[i].peakHoldLevel_db = R(0)

\* The steps of a setInputLevel call after its first.
ProducerAdvance ==
    /\ Producer_loadLevel \/ Producer_storeLevel \/ Producer_storeRead
    /\ UNCHANGED count
    /\ TrackedSlot

\* SpecSlot with the audio thread going on with a call it has begun; nothing
\* is assumed of the refresh thread.
SpecSlotLive == InitSlot /\ [][NextSlot]_vars /\ WF_vars(ProducerAdvance)

\* C25 (SpecSlotLive): a setInputLevel call that has begun comes to its end,
\* whatever steps of the refresh thread fall between its own.
C25_ProducerWaitFree == (producer.pc # "idle") ~> (producer.pc = "idle")

\* The producer is in the middle of a call that found the slot unread, the
\* consumer in the middle of a refresh.
C25_Witness ==
    /\ producer.pc = "loadedLevel"
    /\ consumer = "getInputLevel"
    /\ lastOp.op = "refreshMeterLevel.storeRead"

(***************************************************************************)
(* Dirty flags (SpecSegments).                                             *)
(***************************************************************************)
\* C29 (SpecSegments): a refresh that gives a segment a level not above its
\* peak hold and of the same clamped fill fraction as the level it had
\* leaves the segment's dirty flag, fill extent and marker extents as they
\* were.
C29_NoRedundantDirty ==
    [][ lastOp'.op = "refreshMeterLevel"
        => \A i \in DOMAIN m_segments :
             LET seg   == m_segments[i]
                 after == m_segments'[i]
                 level == m_meterLevel_db'
             IN  /\ RLe(level, seg.peakHoldLevel_db)
                 /\ LevelRatio(seg, level) = LevelRatio(seg, seg.currentLevel_db)
                 => /\ after.currentLevel_db = level
                    /\ after.isDirty = seg.isDirty
                    /\ after.drawnBounds = seg.drawnBounds
                    /\ after.peakHoldBounds = seg.peakHoldBounds
                    /\ after.drawnPeakHoldBounds = seg.drawnPeakHoldBounds ]_vars

\* After a draw, a refresh lowered the level within the first segment: the
\* third segment stays empty and clean, the second has lost its fill and is
\* dirty.
C29_Witness ==
    /\ lastOp.op = "refreshMeterLevel"
    /\ Len(m_segments) = 3
    /\ RLt(m_meterLevel_db, R(-18))
    /\ \A i \in DOMAIN m_segments :
         /\ ~IsEmpty(m_segments[i].segmentBounds)
         /\ m_segments[i].currentLevel_db = m_meterLevel_db
         /\ m_segments[i].peakHoldLevel_db = R(0)
    /\ ~m_segments[3].isDirty
    /\ m_segments[3].drawnBounds.h = R(0)
    /\ m_segments[2].isDirty

(***************************************************************************)
(* Scales, amplitudes and clearMeters at the limits (SpecScale).           *)
(***************************************************************************)
\* C23 (SpecScale): no segment holds a level range of non-positive length or
\* a meter range that is not within [0, 1] with positive length.
C23_InvalidRangesRejected ==
    \A i \in DOMAIN m_segments :
        LET so == m_segments[i].segmentOptions
        IN  /\ RLt(R(0), RangeLength(so.levelRange))
            /\ RLe(R(0), so.meterRange.start)
            /\ RLe(so.meterRange.end, R(1))
            /\ RLt(R(0), RangeLength(so.meterRange))

\* C24 (SpecScale): the getInputLevel of a refreshMeterLevel leaves the slot
\* marked as read and returns a value within the aggregate scale range: its
\* start for an amplitude of 0 or less, its end for an amplitude above 1.0.
C24_InputLevelInScale ==
    lastOp.op = "refreshMeterLevel"
    => /\ m_inputLevelRead
       /\ RLe(m_meterRange.start, slotHist.inputRead)
       /\ RLe(slotHist.inputRead, m_meterRange.end)
       /\ (m_inputLevel <= 0 => slotHist.inputRead = m_meterRange.start)
       /\ (m_inputLevel > 1000000 => slotHist.inputRead = m_meterRange.end)

\* C27 (SpecScale): clearMeters() leaves the stored amplitude 0.
C27_ClearMetersZeroes ==
    lastOp.op = "clearMeters" => m_inputLevel = 0

\* C30 (SpecScale): all segments hold the same peak-hold level, and once a
\* refresh has fed them a level since the last reset of the peak hold or
\* creation of the segments, that level is the highest level fed since.
C30_CanonicalPeak ==
    /\ \A i, j \in DOMAIN m_segments :
         m_segments[i].peakHoldLevel_db = m_segments[j].peakHoldLevel_db
    /\ (m_segments # << >> /\ peakHist.fed => getPeakHoldLevel = peakHist.top)

(***************************************************************************)
(* Dirty segments until they are drawn (Spec).                             *)
(***************************************************************************)
\* C31 (Spec): a segment whose dirty flag is set keeps it set through every
\* operation but drawMeter, whose Segment::draw clears it; getDirtyBounds
\* clears only the engine's peak-hold-dirty and clip-dirty flags.
C31_DirtyUntilDrawn ==
    [][ /\ lastOp'.op # "drawMeter"
           => \A i \in DOMAIN m_segments \cap DOMAIN m_segments' :
                m_segments[i].isDirty => m_segments'[i].isDirty
        /\ lastOp'.op = "getDirtyBounds"
           => /\ ~m_peakHoldDirty' /\ ~m_clipDirty'
              /\ m_segments' = m_segments ]_vars

\* getDirtyBounds has just run after a refresh that put 0 dB on the sized
\* segments: every segment is still dirty, the engine's two flags are down.
C31_Witness ==
    /\ lastOp.op = "getDirtyBounds"
    /\ ~m_peakHoldDirty /\ ~m_clipDirty
    /\ m_meterLevel_db = R(0)
    /\ Len(m_segments) = 3
    /\ \A i \in DOMAIN m_segments :
         /\ m_segments[i].isDirty
         /\ ~IsEmpty(m_segments[i].drawnBounds)

(***************************************************************************)
(* The peak hold against the displayed level (SpecPeak).                   *)
(***************************************************************************)
\* C33 (SpecPeak): after every refreshMeterLevel on an engine with at least
\* one segment, the peak-hold level is greater than or equal to the
\* displayed level.
C33_PeakNotBelowLevel ==
    (lastOp.op = "refreshMeterLevel" /\ m_segments # << >>)
        => RLe(m_meterLevel_db, getPeakHoldLevel)

\* A refresh after a drawMeter whose timed expiry cleared the peak hold (the
\* hold time accumulated is zero again, a draw has sampled the clock) has
\* raised the peak hold to the displayed level of 0 dB again.
C33_Witness ==
    /\ lastOp.op = "refreshMeterLevel"
    /\ m_segments # << >>
    /\ m_totalPeakHoldTimePassed = 0
    /\ m_previousPeakHoldTime # 0
    /\ peakHist.on /\ peakHist.age = 0
    /\ m_meterLevel_db = R(0)
    /\ getPeakHoldLevel = R(0)

(***************************************************************************)
(* The clip latch after resetClipInd (SpecPeak).                           *)
(***************************************************************************)
\* C32 (SpecPeak): after resetClipInd the clip latch stays false until a
\* refreshMeterLevel after the reset has produced a displayed level of 0 dB
\* or more; a peak held from before the reset does not set it again.
C32_ClipStaysReset == clipHist.quiet => ~m_clip

(***************************************************************************)
(* The amplitudes in the slot (SpecSlotReset).                             *)
(***************************************************************************)
\* C34 (SpecSlotReset): under every interleaving of the steps of
\* setInputLevel, getInputLevel and reset(), the slot holds, and
\* getInputLevel loads, an amplitude that was passed to a setInputLevel call
\* begun earlier, or 0.
C34_LoadedWasWritten ==
    /\ m_inputLevel \in valueHist.written \cup {0}
    /\ valueHist.last.any => valueHist.last.amplitude \in valueHist.written \cup {0}

\* getInputLevel has loaded 0 dB after a reset(): the setInputLevel (-40 dB)
\* in progress had loaded the 0 dB of an earlier call before the reset and
\* stored the larger of the two after it.
C34_Witness ==
    /\ lastOp.op = "refreshMeterLevel.loadLevel"
    /\ count.steps = 1
    /\ valueHist.written = {10000, 1000000}
    /\ producer.pc = "storedLevel"
    /\ producer.newLevel = 10000
    /\ valueHist.last.any
    /\ valueHist.last.amplitude = 1000000

(***************************************************************************)
(* Reading the slot twice (SpecScale).                                     *)
(***************************************************************************)
\* C35 as stated (SpecScale): with no store of setInputLevel and no reset()
\* in between, a getInputLevel returns the level the getInputLevel before it
\* returned.
C35_RereadSameLevel == valueHist.again => valueHist.same

\* C35 (SpecScale): with no store of setInputLevel and no reset() in between,
\* a getInputLevel loads the amplitude the getInputLevel before it loaded,
\* and returns the same level when the scale range is the same; the
\* displayed level a refresh leaves is not below the level it read.
C35_RereadSameAmplitude ==
    /\ valueHist.again
         => /\ valueHist.sameAmplitude
            /\ valueHist.sameRange => valueHist.same
    /\ (lastOp.op = "refreshMeterLevel" /\ valueHist.last.any)
         => RLe(valueHist.last.value, m_meterLevel_db)

\* A second refreshMeterLevel with no write in between has read +20 dB
\* again, clipped to 0 dB as before.
C35_Witness ==
    /\ lastOp.op = "refreshMeterLevel"
    /\ valueHist.again
    /\ valueHist.sameRange
    /\ valueHist.last.amplitude = 10000000
    /\ valueHist.last.value = R(0)
    /\ m_meterLevel_db = R(0)

(***************************************************************************)
(* The displayed level within the scale (SpecDecay).                       *)
(***************************************************************************)
\* C36 (SpecDecay): while the counter has only gone forward, every
\* refreshMeterLevel leaves the displayed level within the aggregate scale
\* range [start, end].
C36_LevelInScale ==
    (lastOp.op = "refreshMeterLevel" /\ ~decayHist.wrapped)
        => /\ RLe(m_meterRange.start, m_meterLevel_db)
           /\ RLe(m_meterLevel_db, m_meterRange.end)

(***************************************************************************)
(* The channel around the Level (SpecChannel).                             *)
(***************************************************************************)
\* C37 (SpecChannel): a MeterChannel::refresh of a channel that is inactive,
\* not showing or without a size leaves the consumed flag, the stored
\* amplitude, the displayed level, the peak hold and the clip latch as they
\* are; a setInputLevel that finds the slot not consumed stores the larger of
\* the slot and its amplitude.
C37_IdleRefreshConsumesNothing ==
    [][ /\ (/\ lastOp'.op = "MeterChannel.refresh"
            /\ (~m_active \/ lastOp'.arg = 0 \/ IsEmpty(m_meterBounds)))
           => /\ UNCHANGED << m_inputLevelRead, m_inputLevel, m_meterLevel_db, m_clip >>
              /\ m_segments' = m_segments
        /\ (lastOp'.op = "setInputLevel" /\ ~m_inputLevelRead)
           => m_inputLevel' = Max(m_inputLevel, lastOp'.arg) ]_vars

\* An inactive channel that is showing and has a size has been refreshed
\* after -40 dB was written over 0 dB: the slot is not consumed and holds
\* 0 dB, the displayed level is where setActive (false) left it.
C37_Witness ==
    /\ lastOp.op = "MeterChannel.refresh"
    /\ lastOp.arg = 1
    /\ ~m_active
    /\ ~IsEmpty(m_meterBounds)
    /\ ~m_inputLevelRead
    /\ m_inputLevel = 1000000
    /\ m_meterLevel_db = R(kMinLevel_db)
    /\ count.steps >= 5

\* C38 (SpecChannel): setActive with the state the channel is in changes
\* nothing; with the other state it switches m_active and resets the engine
\* (stored amplitude 0, displayed level kMinLevel_db), leaving the peak hold
\* and the clip latch as they are.
C38_SetActiveFrame ==
    [][ lastOp'.op = "setActive"
        => IF (lastOp'.arg = 1) = m_active
           THEN UNCHANGED << slotVars, levelVars, optionVars, m_segments, m_meterRange,
                             peakTimeVars, clipVars, m_peakHoldDirty, m_isLabelStrip,
                             componentVars, producer, consumer, counter >>
           ELSE /\ m_active' = ~m_active
                /\ m_inputLevel' = 0
                /\ m_meterLevel_db' = R(kMinLevel_db)
                /\ m_segments' = m_segments
                /\ m_clip' = m_clip ]_vars

\* setActive (false) on a channel whose latch was set and whose peak hold was
\* at 0 dB: both are as they were, the amplitude and the level are reset.
C38_Witness ==
    /\ lastOp.op = "setActive"
    /\ ~m_active
    /\ m_clip
    /\ getPeakHoldLevel = R(0)
    /\ m_inputLevel = 0
    /\ m_meterLevel_db = R(kMinLevel_db)

\* C39 (SpecChannel): MetersComponent::setInputLevel with a channel index
\* that is negative or not below the number of channels changes no channel;
\* with a valid index it changes only the slot and the consumed flag of that
\* channel.
C39_ChannelsIndependent ==
    [][ lastOp'.op = "MetersComponent.setInputLevel"
        => LET channel == lastOp'.arg
           IN  /\ UNCHANGED << levelVars, optionVars, m_segments, m_meterRange, peakTimeVars,
                               clipVars, m_peakHoldDirty, m_isLabelStrip, m_meterBounds,
                               m_levelBounds, m_valueBounds, m_clipIndBounds, m_active,
                               producer, consumer, counter >>
               /\ channel # 0 => UNCHANGED slotVars
               /\ \A other \in DOMAIN otherChannels :
                    channel # other => otherChannels'[other] = otherChannels[other]
               /\ channel = 0 => ~m_inputLevelRead'
               /\ channel \in DOMAIN otherChannels
                    => ~otherChannels'[channel].m_inputLevelRead ]_vars

\* MetersComponent::setInputLevel (1, 1.0) has just stored 0 dB in channel
\* 1 while channel 0 holds -40 dB, consumed.
C39_Witness ==
    /\ lastOp.op = "MetersComponent.setInputLevel"
    /\ lastOp.arg = 1
    /\ otherChannels[1].m_inputLevel = 1000000
    /\ m_inputLevel = 10000
    /\ m_inputLevelRead

====
